---- MODULE Spec2Model ----
(***************************************************************************)
(* Model of the Texas Hold'em engine, src/models/game_engine.py            *)
(* (class TexasHoldemGame).  One TexasHoldemGame instance is the record    *)
(* `game`, whose fields carry the names of the instance's attributes.      *)
(* Every method is an operator from a game record to a game record, and    *)
(* every public entry point (add_player, remove_player, start_new_hand,    *)
(* handle_player_action, the timeout task) is one action.                  *)
(*                                                                         *)
(* Cards are modelled by what the engine does with them: the deck and the  *)
(* hands are card counts, and the ranking that CardSystem.evaluate_hand    *)
(* gives the players at a showdown is an input `ev` (a player -> strength  *)
(* map) drawn nondeterministically, as the shuffle is random.              *)
(***************************************************************************)
EXTENDS Integers, Sequences, FiniteSets, TLC

\* ------------------------------------------------------------------ bounds
\* A hand_number above MaxHands is never started.
MaxHands == 1
\* Hand strengths handed out at a showdown are 1..MaxRank (equal = a tie).
MaxRank == 2

\* No action is accepted once the action_history of a hand has MaxActions
\* entries (a hand can go on for ever: a player whose bet is above the table's
\* current bet may check without end).
MaxActions == 12
\* A heads-up table plays at most MaxHeadsUpHands hands.
MaxHeadsUpHands == 3

\* the hands a three-handed table plays when only the button is followed
MaxButtonHands == 2

\* the cards of the small deck the card system is dealt from
MaxDeck == 13

\* the seats of the largest table that is dealt card by card, and the hands
\* dealt at one table
MaxSeats == 9
MaxDeals == 2

\* add_player is accepted at most MaxJoins times, remove_player MaxLeaves times.
MaxJoins == 3
MaxLeaves == 1

\* Player ids offered to add_player / handle_player_action / remove_player.
\* Ids are opaque to the engine (compared for equality only), so a player who
\* joins takes the first id of IdSeq that is not at the table.
IdSeq == <<"p1", "p2", "p3">>
Ids == {IdSeq[i] : i \in 1..Len(IdSeq)}
\* the players of a heads-up table
HeadsUpIds == {"p1", "p2"}
\* Buy-ins offered to add_player.
BuyIns == {1, 6}
\* Buy-ins of a deep-stack table.
DeepBuyIns == {8, 12}
\* (small_blind, big_blind) pairs a table is constructed with.
BlindLevels == {<<1, 2>>, <<3, 6>>}
\* Raise amounts offered to handle_player_action(RAISE, amount).
RaiseAmounts == {2, 4}
\* max_players the table is constructed with.
TableSizes == {3}

\* ------------------------------------------------------------- enum values
None == "none"

WAITING == "waiting"
PRE_FLOP == "pre_flop"
FLOP == "flop"
TURN == "turn"
RIVER == "river"
SHOWDOWN == "showdown"
GAME_OVER == "game_over"
GamePhase == {WAITING, PRE_FLOP, FLOP, TURN, RIVER, SHOWDOWN, GAME_OVER}

FOLD == "fold"
CHECK == "check"
CALL == "call"
RAISE == "raise"
ALL_IN == "all_in"
PlayerAction == {FOLD, CHECK, CALL, RAISE, ALL_IN}

\* PlayerStatus: ACTIVE, FOLDED, ALL_IN (the same word as the action), WAITING
ACTIVE == "active"
FOLDED == "folded"
PlayerStatus == {ACTIVE, FOLDED, ALL_IN, WAITING}

\* ------------------------------------------------------- sequence helpers
Min(a, b) == IF a < b THEN a ELSE b

Contains(s, x) == \E i \in 1..Len(s) : s[i] = x

Range(s) == {s[i] : i \in 1..Len(s)}

\* list.index(x): the first position of x (1-based); 0 when absent
IndexOf(s, x) == IF Contains(s, x) THEN CHOOSE i \in 1..Len(s) : s[i] = x /\ \A j \in 1..(i - 1) : s[j] # x ELSE 0

\* list.remove(x): drops the first occurrence
Remove(s, x) == IF Contains(s, x) THEN [i \in 1..(Len(s) - 1) |-> IF i < IndexOf(s, x) THEN s[i] ELSE s[i + 1]] ELSE s

RECURSIVE SumSeq(_)
SumSeq(s) == IF s = <<>> THEN 0 ELSE Head(s) + SumSeq(Tail(s))

\* ---------------------------------------------------------------- players
\* GamePlayer(player_id, chips, position): the dataclass defaults
GamePlayer(chips, position) ==
  [chips |-> chips, hole_cards |-> 0, current_bet |-> 0, total_bet |-> 0,
   status |-> WAITING, position |-> position, is_dealer |-> FALSE,
   is_small_blind |-> FALSE, is_big_blind |-> FALSE, last_action |-> None]

reset_for_new_hand(p) ==
  [p EXCEPT !.hole_cards = 0, !.current_bet = 0, !.total_bet = 0,
            !.status = IF p.chips > 0 THEN ACTIVE ELSE WAITING,
            !.last_action = None]

can_act(p) == p.status \in {ACTIVE, WAITING} /\ p.chips > 0

is_in_hand(p) == p.status \in {ACTIVE, ALL_IN}

\* self.players.values() in dict order, which is the order of player_order:
\* add_player appends to both and remove_player deletes from both
InOrder(g, kept) == SelectSeq(g.player_order, LAMBDA pid : pid \in kept)

PlayersInHand(g) == InOrder(g, {pid \in DOMAIN g.players : is_in_hand(g.players[pid])})

\* ------------------------------------------------------- phase assignments
\* self.game_phase = phase.  One call can assign the phase several times (a
\* round that closes with nobody left to act runs through the streets);
\* phase_trail keeps the values the call has assigned, in order.
\* The entries of action_history carry the phase they were recorded in, so a
\* new phase has no raise entry yet (action_history.last_raise).
SetPhase(g, phase) ==
  [g EXCEPT !.game_phase = phase, !.phase_trail = Append(@, phase),
            !.action_history.last_raise = IF phase = g.game_phase THEN @ ELSE 0]

\* the instance as a call that is not refused finds it
Entered(g) == [g EXCEPT !.phase_trail = <<>>]

\* ------------------------------------------------------------ timeout task
\* A cancel() that leaves the task as it is: C17 must not hold of it
cancel_ignored(t) == t

\* self.timeout_task: "none" (None), "pending" (sleeping), "running" (the
\* task's own handler is executing), "cancelled", "done"
cancel(t) == IF t \in {"pending", "running"} THEN "cancelled" ELSE t

\* _start_action_timeout: cancel the previous task, create a new one.
\* timeout_armed notes the turn the new task is created in: the current player,
\* the hand and the length of action_history at that moment
_start_action_timeout(g) ==
  [g EXCEPT !.timeout_task = "pending",
            !.timeout_armed = [pid |-> g.current_player_id, hand |-> g.hand_number,
                               len |-> g.action_history.len]]

\* _end_game
_end_game(g) == [SetPhase(g, GAME_OVER) EXCEPT !.timeout_task = cancel(g.timeout_task)]

\* ----------------------------------------------------------- action bodies
\* _handle_immediate_win
_handle_immediate_win(g, winner_id) ==
  LET total_pot == g.main_pot + SumSeq([i \in 1..Len(g.side_pots) |-> g.side_pots[i].amount])
      players1 == [g.players EXCEPT ![winner_id].chips = @ + total_pot]
      results == [pid \in DOMAIN players1 |->
                    [profit |-> IF pid = winner_id THEN total_pot - players1[pid].total_bet
                                ELSE 0 - players1[pid].total_bet,
                     won |-> pid = winner_id,
                     hand_evaluation |-> 0,
                     final_chips |-> players1[pid].chips]]
  IN SetPhase([g EXCEPT !.players = players1, !.game_results = results], GAME_OVER)

\* _handle_fold_action without lines 520-528, the test for the last player in
\* the hand: C6 must not hold of it
_handle_fold_action_only(g, player_id) ==
  [g EXCEPT !.players[player_id].status = FOLDED,
            !.players[player_id].last_action = FOLD,
            !.active_players = Remove(g.active_players, player_id)]

\* _handle_fold_action
_handle_fold_action(g, player_id) ==
  LET g1 == [g EXCEPT !.players[player_id].status = FOLDED,
                      !.players[player_id].last_action = FOLD,
                      !.active_players = Remove(g.active_players, player_id)]
      players_in_hand == PlayersInHand(g1)
  IN IF Len(players_in_hand) = 1 THEN _handle_immediate_win(g1, players_in_hand[1])
     ELSE IF Len(players_in_hand) = 0 THEN _end_game(g1)
     ELSE g1

\* _handle_check_action
_handle_check_action(g, player_id) == [g EXCEPT !.players[player_id].last_action = CHECK]

\* _handle_call_action
_handle_call_action(g, player_id) ==
  LET player == g.players[player_id]
      call_amount == g.current_bet - player.current_bet
      allin == call_amount >= player.chips
      bet_amount == IF allin THEN player.chips ELSE call_amount
  IN [g EXCEPT !.players[player_id].chips = IF allin THEN 0 ELSE @ - bet_amount,
               !.players[player_id].status = IF allin THEN ALL_IN ELSE @,
               !.players[player_id].current_bet = @ + bet_amount,
               !.players[player_id].total_bet = @ + bet_amount,
               !.players[player_id].last_action = CALL,
               !.main_pot = @ + bet_amount]

\* _handle_raise_action
_handle_raise_action(g, player_id, raise_amount) ==
  LET player == g.players[player_id]
      call_amount == g.current_bet - player.current_bet
      total_bet == call_amount + raise_amount
      allin == total_bet >= player.chips
      bet_amount == IF allin THEN player.chips ELSE total_bet
  IN [g EXCEPT !.players[player_id].chips = IF allin THEN 0 ELSE @ - bet_amount,
               !.players[player_id].status = IF allin THEN ALL_IN ELSE @,
               !.players[player_id].current_bet = @ + bet_amount,
               !.players[player_id].total_bet = @ + bet_amount,
               !.players[player_id].last_action = RAISE,
               !.current_bet = player.current_bet + bet_amount,
               !.last_raise_player_id = player_id,
               !.main_pot = @ + bet_amount]

\* An All-In that leaves the player's status as it was: C39 must not hold of
\* it
_handle_all_in_action_status_kept(g, player_id) ==
  LET player == g.players[player_id]
      bet_amount == player.chips
      new_bet == player.current_bet + bet_amount
      raises == new_bet > g.current_bet
  IN [g EXCEPT !.players[player_id].current_bet = new_bet,
               !.players[player_id].total_bet = @ + bet_amount,
               !.players[player_id].chips = 0,
               !.players[player_id].last_action = ALL_IN,
               !.current_bet = IF raises THEN new_bet ELSE @,
               !.last_raise_player_id = IF raises THEN player_id ELSE @,
               !.main_pot = @ + bet_amount]

\* _handle_all_in_action
_handle_all_in_action(g, player_id) ==
  LET player == g.players[player_id]
      bet_amount == player.chips
      new_bet == player.current_bet + bet_amount
      raises == new_bet > g.current_bet
  IN [g EXCEPT !.players[player_id].current_bet = new_bet,
               !.players[player_id].total_bet = @ + bet_amount,
               !.players[player_id].chips = 0,
               !.players[player_id].status = ALL_IN,
               !.players[player_id].last_action = ALL_IN,
               !.current_bet = IF raises THEN new_bet ELSE @,
               !.last_raise_player_id = IF raises THEN player_id ELSE @,
               !.main_pot = @ + bet_amount]

\* _record_action: action_history.append(...); the history is kept as its
\* length, its last entry, and the amount of the last raise entry among those
\* recorded in the current phase (0 when there is none)
_record_action(g, player_id, action, amount) ==
  [g EXCEPT !.action_history = [len |-> @.len + 1,
                                last |-> <<player_id, action, amount, g.game_phase>>,
                                last_raise |-> IF action = RAISE THEN amount ELSE @.last_raise]]

\* ------------------------------------------------------ betting-round logic
\* _is_betting_round_complete
_is_betting_round_complete(g) ==
  LET in_hand_players == PlayersInHand(g)
      P(pid) == g.players[pid]
      InHand == {in_hand_players[i] : i \in 1..Len(in_hand_players)}
      can_act_players == {pid \in InHand : can_act(P(pid))}
      max_bet == CHOOSE m \in {P(pid).current_bet : pid \in InHand} :
                   \A pid \in InHand : P(pid).current_bet <= m
      acted(pid) == P(pid).last_action # None \/ P(pid).is_small_blind \/ P(pid).is_big_blind
      \* first loop: players who can act and are below the highest bet
      unmatched1 == {pid \in InHand : P(pid).status # ALL_IN /\ can_act(P(pid))
                                      /\ P(pid).current_bet < max_bet}
      players_acted == Cardinality({pid \in InHand : P(pid).status # ALL_IN /\ can_act(P(pid))
                                                     /\ acted(pid)})
      \* second loop: nobody has bet and somebody has not acted
      unmatched2 == IF max_bet = 0 /\ players_acted < Cardinality(can_act_players)
                    THEN {pid \in InHand : can_act(P(pid)) /\ P(pid).last_action = None
                                           /\ ~(P(pid).is_small_blind \/ P(pid).is_big_blind)}
                    ELSE {}
      \* third loop: everybody but the raiser has to answer the raise
      unmatched3 == IF g.last_raise_player_id # None /\ max_bet > 0
                    THEN {pid \in InHand : can_act(P(pid)) /\ pid # g.last_raise_player_id
                                           /\ P(pid).current_bet < max_bet}
                    ELSE {}
  IN IF Len(in_hand_players) <= 1 THEN TRUE
     ELSE IF can_act_players = {} THEN TRUE
     ELSE (unmatched1 \cup unmatched2 \cup unmatched3) = {}

\* _move_to_next_player
_move_to_next_player(g) ==
  IF g.game_phase = GAME_OVER THEN g
  ELSE IF g.active_players = <<>> THEN g
  ELSE IF Len(g.active_players) <= 1 THEN g
  ELSE LET current_index == IndexOf(g.active_players, g.current_player_id) - 1
           next_index == IF Contains(g.active_players, g.current_player_id)
                         THEN (current_index + 1) % Len(g.active_players)
                         ELSE 0
       IN _start_action_timeout([g EXCEPT !.current_player_index = next_index,
                                          !.current_player_id = g.active_players[next_index + 1]])

\* ------------------------------------------------------------- the showdown
\* bets.sort(key=lambda x: x[1]): a stable sort, here by insertion
RECURSIVE InsertBet(_, _)
InsertBet(sorted, b) ==
  IF sorted = <<>> THEN <<b>>
  ELSE IF Head(sorted)[2] <= b[2] THEN <<Head(sorted)>> \o InsertBet(Tail(sorted), b)
  ELSE <<b>> \o sorted

RECURSIVE SortBets(_)
SortBets(bets) == IF bets = <<>> THEN <<>> ELSE InsertBet(SortBets(SubSeq(bets, 1, Len(bets) - 1)), bets[Len(bets)])

\* Side pots whose every layer counts all the contributors, also those who put
\* in less than the layer's level: C14 must not hold of it
RECURSIVE SidePotsFlat(_, _, _)
SidePotsFlat(bets, i, prev_bet) ==
  IF i > Len(bets) THEN <<>>
  ELSE IF bets[i][2] > prev_bet
       THEN <<[amount |-> (bets[i][2] - prev_bet) * Len(bets),
               eligible_players |-> [k \in 1..Len(bets) |-> bets[k][1]]]>>
            \o SidePotsFlat(bets, i + 1, bets[i][2])
       ELSE SidePotsFlat(bets, i + 1, prev_bet)

\* the loop of _calculate_side_pots from index i (1-based) on
RECURSIVE SidePotsFrom(_, _, _)
SidePotsFrom(bets, i, prev_bet) ==
  IF i > Len(bets) THEN <<>>
  ELSE IF bets[i][2] > prev_bet
       THEN <<[amount |-> (bets[i][2] - prev_bet) * (Len(bets) - i + 1),
               eligible_players |-> [k \in 1..(Len(bets) - i + 1) |-> bets[i + k - 1][1]]]>>
            \o SidePotsFrom(bets, i + 1, bets[i][2])
       ELSE SidePotsFrom(bets, i + 1, prev_bet)

\* _calculate_side_pots
_calculate_side_pots(g) ==
  LET contributors == InOrder(g, {pid \in DOMAIN g.players : g.players[pid].total_bet > 0})
      bets == [i \in 1..Len(contributors) |-> <<contributors[i], g.players[contributors[i]].total_bet>>]
  IN IF bets = <<>> THEN g
     ELSE [g EXCEPT !.side_pots = SidePotsFrom(SortBets(bets), 1, 0)]

\* Pots split evenly with the remainder chips left out: C16 must not hold of it
RECURSIVE AwardPotsNoRemainder(_, _, _, _)
AwardPotsNoRemainder(g, evaluated, ev, i) ==
  IF i > Len(g.side_pots) THEN g
  ELSE LET side_pot == g.side_pots[i]
           eligible == SelectSeq(evaluated, LAMBDA pid : Contains(side_pot.eligible_players, pid))
           best == CHOOSE b \in {ev[eligible[k]] : k \in 1..Len(eligible)} :
                     \A k \in 1..Len(eligible) : ev[eligible[k]] <= b
           winners == SelectSeq(eligible, LAMBDA pid : ev[pid] >= best)
           winnings_per_player == side_pot.amount \div Len(winners)
           IsWinner(pid) == Contains(winners, pid)
       IN IF eligible = <<>> THEN AwardPotsNoRemainder(g, evaluated, ev, i + 1)
          ELSE AwardPotsNoRemainder(
                 [g EXCEPT !.players = [pid \in DOMAIN g.players |->
                                          IF IsWinner(pid)
                                          THEN [g.players[pid] EXCEPT !.chips = @ + winnings_per_player]
                                          ELSE g.players[pid]],
                           !.game_results = [pid \in DOMAIN g.game_results |->
                                          IF IsWinner(pid)
                                          THEN [g.game_results[pid] EXCEPT !.profit = @ + winnings_per_player,
                                                                           !.won = TRUE]
                                          ELSE g.game_results[pid]]],
                 evaluated, ev, i + 1)

\* the body of the loop "for side_pot in self.side_pots" of _distribute_winnings,
\* from pot i on; ev is player_evaluations, its keys the players in the hand
RECURSIVE AwardPots(_, _, _, _)
AwardPots(g, evaluated, ev, i) ==
  IF i > Len(g.side_pots) THEN g
  ELSE LET side_pot == g.side_pots[i]
           eligible == SelectSeq(evaluated, LAMBDA pid : Contains(side_pot.eligible_players, pid))
           best == CHOOSE b \in {ev[eligible[k]] : k \in 1..Len(eligible)} :
                     \A k \in 1..Len(eligible) : ev[eligible[k]] <= b
           winners == SelectSeq(eligible, LAMBDA pid : ev[pid] >= best /\ ~(ev[pid] < best))
           winnings_per_player == side_pot.amount \div Len(winners)
           remainder == side_pot.amount % Len(winners)
           winnings(pid) == winnings_per_player + (IF IndexOf(winners, pid) - 1 < remainder THEN 1 ELSE 0)
           IsWinner(pid) == Contains(winners, pid)
       IN IF eligible = <<>> THEN AwardPots(g, evaluated, ev, i + 1)
          ELSE AwardPots(
                 [g EXCEPT !.players = [pid \in DOMAIN g.players |->
                                          IF IsWinner(pid)
                                          THEN [g.players[pid] EXCEPT !.chips = @ + winnings(pid)]
                                          ELSE g.players[pid]],
                           !.game_results = [pid \in DOMAIN g.game_results |->
                                          IF IsWinner(pid)
                                          THEN [g.game_results[pid] EXCEPT !.profit = @ + winnings(pid),
                                                                           !.won = TRUE]
                                          ELSE g.game_results[pid]]],
                 evaluated, ev, i + 1)

\* _distribute_winnings
_distribute_winnings(g, evaluated, ev) ==
  LET results0 == [pid \in DOMAIN g.players |->
                     [profit |-> 0 - g.players[pid].total_bet,
                      won |-> FALSE,
                      hand_evaluation |-> IF Contains(evaluated, pid) THEN ev[pid] ELSE 0,
                      final_chips |-> g.players[pid].chips]]
      g1 == [g EXCEPT !.game_results = results0,
                      !.side_pots = IF g.side_pots = <<>>
                                    THEN <<[amount |-> g.main_pot, eligible_players |-> evaluated]>>
                                    ELSE @]
      g2 == AwardPots(g1, evaluated, ev, 1)
  IN [g2 EXCEPT !.game_results = [pid \in DOMAIN g2.game_results |->
                                    [g2.game_results[pid] EXCEPT !.final_chips = g2.players[pid].chips]]]

\* _handle_showdown
_handle_showdown(g, ev) ==
  LET g1 == _calculate_side_pots(g)
      g2 == _distribute_winnings(g1, PlayersInHand(g1), ev)
  IN SetPhase(g2, GAME_OVER)

\* ------------------------------------------------------- streets and turns
\* A street dealt without a burn card: C8 must not hold of it
DealStreetNoBurn(g, n) ==
  LET dealt == Min(n, g.deck)
  IN [g EXCEPT !.deck = @ - dealt, !.community_cards = @ + dealt]

\* CardSystem.deal_card pops one card unless the deck is empty; a street burns
\* one card and then deals n community cards (_deal_flop, _deal_turn, _deal_river)
DealStreet(g, n) ==
  LET after_burn == IF g.deck > 0 THEN g.deck - 1 ELSE 0
      dealt == Min(n, after_burn)
  IN [g EXCEPT !.deck = after_burn - dealt, !.community_cards = @ + dealt]

_deal_flop(g) == DealStreet(g, 3)

_deal_turn(g) == DealStreet(g, 1)

_deal_river(g) == DealStreet(g, 1)

\* next((pid for pid in self.player_order if flag(pid)), None)
FirstFlagged(g, flag) ==
  LET flagged == InOrder(g, {pid \in DOMAIN g.players : g.players[pid][flag]}) IN IF flagged = <<>> THEN None ELSE flagged[1]

\* _set_action_order; start_index is 0-based as in the source
_set_action_order(g) ==
  LET active == InOrder(g, {pid \in DOMAIN g.players : is_in_hand(g.players[pid]) /\ can_act(g.players[pid])})
      n == Len(active)
      sb_player_id == FirstFlagged(g, "is_small_blind")
      bb_player_id == FirstFlagged(g, "is_big_blind")
      sb_index == IF sb_player_id # None /\ Contains(active, sb_player_id)
                  THEN IndexOf(active, sb_player_id) - 1 ELSE 0
      start_index ==
        IF g.game_phase = PRE_FLOP
        THEN IF n = 2 THEN sb_index
             ELSE IF bb_player_id # None /\ Contains(active, bb_player_id)
                  THEN ((IndexOf(active, bb_player_id) - 1) + 1) % n
                  ELSE 0
        ELSE IF g.last_phase_starter # None
             THEN IF Contains(active, g.last_phase_starter)
                  THEN ((IndexOf(active, g.last_phase_starter) - 1) + 1) % n
                  ELSE 0
             ELSE sb_index
  IN IF active = <<>> THEN [g EXCEPT !.active_players = active]
     ELSE [g EXCEPT !.active_players = active,
                    !.last_phase_starter = IF g.game_phase = PRE_FLOP THEN @ ELSE active[start_index + 1],
                    !.current_player_index = start_index,
                    !.current_player_id = active[start_index + 1],
                    !.last_raise_player_id = None]

RECURSIVE _advance_to_next_phase(_, _)

\* _start_betting_round
_start_betting_round(g, ev) ==
  IF g.active_players = <<>> THEN _advance_to_next_phase(g, ev)
  ELSE _start_action_timeout(
         IF g.game_phase # PRE_FLOP
         THEN [g EXCEPT !.players = [pid \in DOMAIN g.players |-> [g.players[pid] EXCEPT !.current_bet = 0]],
                        !.current_bet = 0]
         ELSE g)

\* A change of phase that leaves every player's last_action as it was: C31
\* must not hold of it
_advance_keeping_last_action(g, ev) ==
  IF g.game_phase = GAME_OVER THEN g
  ELSE IF g.game_phase = RIVER THEN _handle_showdown(SetPhase(g, SHOWDOWN), ev)
  ELSE LET g1 == IF g.game_phase = PRE_FLOP THEN SetPhase(_deal_flop(g), FLOP)
                 ELSE IF g.game_phase = FLOP THEN SetPhase(_deal_turn(g), TURN)
                 ELSE IF g.game_phase = TURN THEN SetPhase(_deal_river(g), RIVER)
                 ELSE g
           g2 == [g1 EXCEPT !.players = [pid \in DOMAIN g1.players |->
                                           [g1.players[pid] EXCEPT !.current_bet = 0]],
                            !.current_bet = 0,
                            !.last_raise_player_id = None]
       IN IF g.current_player_id = None THEN [g2 EXCEPT !.raised = TRUE]
          ELSE _start_betting_round(_set_action_order(g2), ev)

\* _advance_to_next_phase.  Line 790 logs old_current_player[:8], which raises
\* TypeError when current_player_id is still None: the call stops there, after
\* the deal and the reset of the bets (`raised`).
_advance_to_next_phase(g, ev) ==
  IF g.game_phase = GAME_OVER THEN g
  ELSE IF g.game_phase = RIVER THEN _handle_showdown(SetPhase(g, SHOWDOWN), ev)
  ELSE LET g1 == IF g.game_phase = PRE_FLOP THEN SetPhase(_deal_flop(g), FLOP)
                 ELSE IF g.game_phase = FLOP THEN SetPhase(_deal_turn(g), TURN)
                 ELSE IF g.game_phase = TURN THEN SetPhase(_deal_river(g), RIVER)
                 ELSE g
           g2 == [g1 EXCEPT !.players = [pid \in DOMAIN g1.players |->
                                           [g1.players[pid] EXCEPT !.current_bet = 0, !.last_action = None]],
                            !.current_bet = 0,
                            !.last_raise_player_id = None]
       IN IF g.current_player_id = None THEN [g2 EXCEPT !.raised = TRUE]
          ELSE _start_betting_round(_set_action_order(g2), ev)

\* ------------------------------------------------------ handle_player_action
\* _is_valid_action without the test of whose turn it is (line 1049): C2 must
\* not hold of it
_is_valid_action_any_turn(g, player_id, action, amount) ==
  IF player_id \notin DOMAIN g.players THEN FALSE
  ELSE LET player == g.players[player_id]
           call_amount == g.current_bet - player.current_bet
       IN IF ~can_act(player) THEN FALSE
          ELSE IF g.game_phase \in {WAITING, GAME_OVER} THEN FALSE
          ELSE IF action = FOLD THEN TRUE
          ELSE IF action = CHECK THEN player.current_bet >= g.current_bet
          ELSE IF action = CALL THEN call_amount > 0 /\ player.chips >= call_amount
          ELSE IF action = RAISE
               THEN player.chips > 0 /\ amount >= g.big_blind /\ player.chips >= call_amount + amount
          ELSE IF action = ALL_IN THEN player.chips > 0
          ELSE FALSE

\* _is_valid_action
_is_valid_action(g, player_id, action, amount) ==
  IF player_id \notin DOMAIN g.players THEN FALSE
  ELSE LET player == g.players[player_id]
           call_amount == g.current_bet - player.current_bet
           total_needed == call_amount + amount
           min_raise == g.big_blind
       IN IF g.current_player_id # player_id THEN FALSE
          ELSE IF ~can_act(player) THEN FALSE
          ELSE IF g.game_phase \in {WAITING, GAME_OVER} THEN FALSE
          ELSE IF action = FOLD THEN TRUE
          ELSE IF action = CHECK THEN player.current_bet >= g.current_bet
          ELSE IF action = CALL THEN call_amount > 0 /\ player.chips >= call_amount
          ELSE IF action = RAISE
               THEN IF player.chips <= 0 \/ amount <= 0 THEN FALSE
                    ELSE IF player.chips < total_needed THEN FALSE
                    ELSE IF amount < min_raise THEN FALSE
                    ELSE TRUE
          ELSE IF action = ALL_IN THEN player.chips > 0
          ELSE FALSE

\* the dispatch on the action in handle_player_action
ApplyAction(g, player_id, action, amount) ==
  IF action = FOLD THEN _handle_fold_action(g, player_id)
  ELSE IF action = CHECK THEN _handle_check_action(g, player_id)
  ELSE IF action = CALL THEN _handle_call_action(g, player_id)
  ELSE IF action = RAISE THEN _handle_raise_action(g, player_id, amount)
  ELSE IF action = ALL_IN THEN _handle_all_in_action(g, player_id)
  ELSE g

\* handle_player_action, after the validity test: cancel the timer, apply and
\* record the action, then close the round or pass the turn
AcceptAction(g, player_id, action, amount, ev) ==
  LET g1 == [Entered(g) EXCEPT !.timeout_task = cancel(g.timeout_task)]
      g2 == ApplyAction(g1, player_id, action, amount)
      g3 == _record_action(g2, player_id, action, amount)
  IN IF _is_betting_round_complete(g3) THEN _advance_to_next_phase(g3, ev)
     ELSE _move_to_next_player(g3)

\* handle_player_action: <<game afterwards, return value>>
handle_player_action(g, player_id, action, amount, ev) ==
  IF ~_is_valid_action(g, player_id, action, amount) THEN <<g, FALSE>>
  ELSE <<AcceptAction(g, player_id, action, amount, ev), TRUE>>

\* ------------------------------------------------------------ start_new_hand
\* CardSystem._create_deck: 4 suits x 13 ranks
DeckSize == 52

\* _set_dealer_and_blinds
_set_dealer_and_blinds(g) ==
  LET active_player_ids == InOrder(g, {pid \in DOMAIN g.players : g.players[pid].chips > 0})
      n == Len(active_player_ids)
      dealer_id == active_player_ids[(g.dealer_position % n) + 1]
      sb_id == IF n = 2 THEN dealer_id ELSE active_player_ids[((g.dealer_position + 1) % n) + 1]
      bb_id == IF n = 2 THEN active_player_ids[((g.dealer_position + 1) % n) + 1]
               ELSE active_player_ids[((g.dealer_position + 2) % n) + 1]
  IN IF n < 2 THEN g
     ELSE [g EXCEPT !.players = [pid \in DOMAIN g.players |->
                                   [g.players[pid] EXCEPT !.is_dealer = (pid = dealer_id) \/ @,
                                                          !.is_small_blind = (pid = sb_id) \/ @,
                                                          !.is_big_blind = (pid = bb_id) \/ @]],
                    !.dealer_position = (g.dealer_position + 1) % n]

\* _deal_hole_cards: a fresh deck, then two rounds of one card to every player
\* with chips (2 x players <= DeckSize, so no deal_card finds the deck empty)
_deal_hole_cards(g) ==
  LET funded == Len(InOrder(g, {pid \in DOMAIN g.players : g.players[pid].chips > 0}))
  IN [g EXCEPT !.deck = DeckSize - 2 * funded,
               !.players = [pid \in DOMAIN g.players |->
                              [g.players[pid] EXCEPT !.hole_cards = IF g.players[pid].chips > 0 THEN @ + 2 ELSE @]]]

\* A blind posted in full whatever the player holds: C23 must not hold of it
PostFullBlind(p, blind) ==
  [p EXCEPT !.current_bet = blind, !.total_bet = blind,
            !.chips = @ - blind,
            !.status = IF p.chips - blind = 0 THEN ALL_IN ELSE @]

\* the blind one player posts in _collect_blinds
PostBlind(p, blind) ==
  LET blind_amount == Min(blind, p.chips)
  IN [p EXCEPT !.current_bet = blind_amount, !.total_bet = blind_amount,
               !.chips = @ - blind_amount,
               !.status = IF p.chips - blind_amount = 0 THEN ALL_IN ELSE @]

\* _collect_blinds: at most one player carries each flag, so the order of the
\* loop does not matter
_collect_blinds(g) ==
  LET IsSB(pid) == g.players[pid].is_small_blind /\ g.players[pid].chips > 0
      IsBB(pid) == ~g.players[pid].is_small_blind /\ g.players[pid].is_big_blind /\ g.players[pid].chips > 0
      Posted(pid) == IF IsSB(pid) THEN PostBlind(g.players[pid], g.small_blind)
                     ELSE IF IsBB(pid) THEN PostBlind(g.players[pid], g.big_blind)
                     ELSE g.players[pid]
      players1 == [pid \in DOMAIN g.players |-> Posted(pid)]
      posters == {pid \in DOMAIN g.players : IsSB(pid) \/ IsBB(pid)}
      bbs == {pid \in DOMAIN g.players : IsBB(pid)}
  IN [g EXCEPT !.players = players1,
               !.main_pot = @ + SumSeq([i \in 1..Len(g.player_order) |->
                                          IF g.player_order[i] \in posters
                                          THEN players1[g.player_order[i]].total_bet ELSE 0]),
               !.current_bet = IF bbs = {} THEN @ ELSE players1[CHOOSE pid \in bbs : TRUE].current_bet]

\* start_new_hand: <<game afterwards, return value>>; the return value is
\* "TypeError" when _advance_to_next_phase raised
start_new_hand(g, ev) ==
  IF Len(g.player_order) < 2 THEN <<g, "False">>
  ELSE LET g1 == [SetPhase(Entered(g), PRE_FLOP) EXCEPT
                           !.hand_number = @ + 1,
                           !.community_cards = 0,
                           !.main_pot = 0,
                           !.side_pots = <<>>,
                           !.current_bet = 0,
                           !.action_history = [len |-> 0, last |-> <<>>, last_raise |-> 0],
                           !.game_results = <<>>,
                           !.last_phase_starter = None,
                           !.players = [pid \in DOMAIN g.players |->
                                          [reset_for_new_hand(g.players[pid])
                                             EXCEPT !.is_dealer = FALSE,
                                                    !.is_small_blind = FALSE,
                                                    !.is_big_blind = FALSE]]]
           g2 == _start_betting_round(_set_action_order(_collect_blinds(_deal_hole_cards(_set_dealer_and_blinds(g1)))), ev)
       IN <<[g2 EXCEPT !.raised = FALSE], IF g2.raised THEN "TypeError" ELSE "True">>

\* ------------------------------------------------- add_player, remove_player
\* add_player: <<game afterwards, return value>>
add_player(g, player_id, chips) ==
  IF Len(g.player_order) >= g.max_players THEN <<g, FALSE>>
  ELSE IF player_id \in DOMAIN g.players THEN <<g, FALSE>>
  ELSE <<[Entered(g) EXCEPT !.players = [pid \in DOMAIN g.players \cup {player_id} |->
                                  IF pid = player_id THEN GamePlayer(chips, Len(g.player_order))
                                  ELSE g.players[pid]],
                   !.player_order = Append(@, player_id)], TRUE>>

\* A removal that deletes the player without folding for them: C27 must not
\* hold of it
remove_player_unfolded(g, player_id) ==
  IF player_id \notin DOMAIN g.players THEN <<g, FALSE>>
  ELSE LET g1 == Entered(g)
           g2 == [g1 EXCEPT !.players = [pid \in DOMAIN g1.players \ {player_id} |-> g1.players[pid]],
                            !.player_order = Remove(@, player_id),
                            !.active_players = Remove(@, player_id)]
       IN <<IF Len(g2.player_order) < 2 THEN _end_game(g2) ELSE g2, TRUE>>

\* remove_player: <<game afterwards, return value>>
remove_player(g, player_id) ==
  IF player_id \notin DOMAIN g.players THEN <<g, FALSE>>
  ELSE LET g1 == IF g.game_phase \notin {WAITING, GAME_OVER} /\ is_in_hand(g.players[player_id])
                 THEN _handle_fold_action(Entered(g), player_id) ELSE Entered(g)
           g2 == [g1 EXCEPT !.players = [pid \in DOMAIN g1.players \ {player_id} |-> g1.players[pid]],
                            !.player_order = Remove(@, player_id),
                            !.active_players = Remove(@, player_id)]
       IN <<IF Len(g2.player_order) < 2 THEN _end_game(g2) ELSE g2, TRUE>>

\* ========================================================== the card system
\* HandRank and its rank_value
HIGH_CARD == "high_card"
ONE_PAIR == "one_pair"
TWO_PAIR == "two_pair"
THREE_KIND == "three_kind"
STRAIGHT == "straight"
FLUSH == "flush"
FULL_HOUSE == "full_house"
FOUR_KIND == "four_kind"
STRAIGHT_FLUSH == "straight_flush"
ROYAL_FLUSH == "royal_flush"

rank_value(hand_rank) ==
  CASE hand_rank = HIGH_CARD -> 1 [] hand_rank = ONE_PAIR -> 2 [] hand_rank = TWO_PAIR -> 3
    [] hand_rank = THREE_KIND -> 4 [] hand_rank = STRAIGHT -> 5 [] hand_rank = FLUSH -> 6
    [] hand_rank = FULL_HOUSE -> 7 [] hand_rank = FOUR_KIND -> 8
    [] hand_rank = STRAIGHT_FLUSH -> 9 [] hand_rank = ROYAL_FLUSH -> 10

\* Card: rank is Rank.numeric_value (2..14, the Ace 14), suit a Suit
Card(rank, suit) == [rank |-> rank, suit |-> suit]

\* HandEvaluation without best_cards, which no comparison reads
HandEvaluation(hand_rank, primary_value, secondary_value, kickers) ==
  [hand_rank |-> hand_rank, primary_value |-> primary_value,
   secondary_value |-> secondary_value, kickers |-> kickers]

\* the loop over zip(self.kickers, other.kickers) of __lt__, from index i on
RECURSIVE KickersLt(_, _, _)
KickersLt(k1, k2, i) ==
  IF i > Len(k1) \/ i > Len(k2) THEN FALSE
  ELSE IF k1[i] # k2[i] THEN k1[i] < k2[i]
  ELSE KickersLt(k1, k2, i + 1)

\* An order that stops at the secondary value: C29 must not hold of it
lt_without_kickers(self, other) ==
  IF rank_value(self.hand_rank) # rank_value(other.hand_rank)
  THEN rank_value(self.hand_rank) < rank_value(other.hand_rank)
  ELSE IF self.primary_value # other.primary_value THEN self.primary_value < other.primary_value
  ELSE IF self.secondary_value # other.secondary_value THEN self.secondary_value < other.secondary_value
  ELSE FALSE

\* HandEvaluation.__lt__
__lt__(self, other) ==
  IF rank_value(self.hand_rank) # rank_value(other.hand_rank)
  THEN rank_value(self.hand_rank) < rank_value(other.hand_rank)
  ELSE IF self.primary_value # other.primary_value THEN self.primary_value < other.primary_value
  ELSE IF self.secondary_value # other.secondary_value THEN self.secondary_value < other.secondary_value
  ELSE KickersLt(self.kickers, other.kickers, 1)

\* HandEvaluation.__eq__
__eq__(self, other) ==
  /\ rank_value(self.hand_rank) = rank_value(other.hand_rank)
  /\ self.primary_value = other.primary_value
  /\ self.secondary_value = other.secondary_value
  /\ self.kickers = other.kickers

\* HandEvaluation.__le__ and __gt__
__le__(self, other) == __lt__(self, other) \/ __eq__(self, other)

__gt__(self, other) == ~__le__(self, other)

\* sorted(..., reverse=True) of a list of numbers
RECURSIVE InsertDesc(_, _)
InsertDesc(sorted, n) ==
  IF sorted = <<>> THEN <<n>>
  ELSE IF Head(sorted) >= n THEN <<Head(sorted)>> \o InsertDesc(Tail(sorted), n)
  ELSE <<n>> \o sorted

RECURSIVE SortDesc(_)
SortDesc(s) == IF s = <<>> THEN <<>> ELSE InsertDesc(SortDesc(SubSeq(s, 1, Len(s) - 1)), s[Len(s)])

\* CardSystem._is_straight
_is_straight(ranks) == \A i \in 1..(Len(ranks) - 1) : ranks[i] - ranks[i + 1] = 1

\* A test that never finds A-2-3-4-5: C30 must not hold of it
never_wheel(ranks) == FALSE

\* the test of the special case A-2-3-4-5 in _evaluate_five_cards
is_wheel(ranks) == ranks = <<14, 5, 4, 3, 2>>

\* CardSystem._evaluate_five_cards.  rank_counts is the Counter as the list of
\* its (rank, count) items in the order of first appearance
_evaluate_five_cards(cards) ==
  LET ranks0 == SortDesc([i \in 1..Len(cards) |-> cards[i].rank])
      first_seen == SelectSeq([i \in 1..Len(ranks0) |-> i],
                              LAMBDA i : \A j \in 1..(i - 1) : ranks0[j] # ranks0[i])
      rank_counts == [k \in 1..Len(first_seen) |->
                        <<ranks0[first_seen[k]],
                          Cardinality({i \in 1..Len(ranks0) : ranks0[i] = ranks0[first_seen[k]]})>>]
      count_values == SortDesc([k \in 1..Len(rank_counts) |-> rank_counts[k][2]])
      with(count) == LET found == SelectSeq(rank_counts, LAMBDA item : item[2] = count)
                     IN [k \in 1..Len(found) |-> found[k][1]]
      is_flush == Cardinality({cards[i].suit : i \in 1..Len(cards)}) = 1
      wheel == is_wheel(ranks0)
      is_straight == _is_straight(ranks0) \/ wheel
      ranks == IF wheel THEN <<5, 4, 3, 2, 1>> ELSE ranks0
  IN IF is_straight /\ is_flush
     THEN HandEvaluation(IF ranks[1] = 14 THEN ROYAL_FLUSH ELSE STRAIGHT_FLUSH, ranks[1], 0, <<>>)
     ELSE IF count_values = <<4, 1>> THEN HandEvaluation(FOUR_KIND, with(4)[1], 0, <<with(1)[1]>>)
     ELSE IF count_values = <<3, 2>> THEN HandEvaluation(FULL_HOUSE, with(3)[1], with(2)[1], <<>>)
     ELSE IF is_flush THEN HandEvaluation(FLUSH, ranks[1], 0, Tail(ranks))
     ELSE IF is_straight THEN HandEvaluation(STRAIGHT, ranks[1], 0, <<>>)
     ELSE IF count_values = <<3, 1, 1>>
          THEN HandEvaluation(THREE_KIND, with(3)[1], 0, SortDesc(with(1)))
     ELSE IF count_values = <<2, 2, 1>>
          THEN HandEvaluation(TWO_PAIR, SortDesc(with(2))[1], SortDesc(with(2))[2], <<with(1)[1]>>)
     ELSE IF count_values = <<2, 1, 1, 1>>
          THEN HandEvaluation(ONE_PAIR, with(2)[1], 0, SortDesc(with(1)))
     ELSE HandEvaluation(HIGH_CARD, ranks[1], 0, Tail(ranks))

\* itertools.combinations(s, k), in its order
RECURSIVE combinations(_, _)
combinations(s, k) ==
  IF k = 0 THEN <<<<>>>>
  ELSE IF Len(s) < k THEN <<>>
  ELSE LET with_head == combinations(Tail(s), k - 1)
       IN [i \in 1..Len(with_head) |-> <<Head(s)>> \o with_head[i]] \o combinations(Tail(s), k)

\* the loop of evaluate_hand over the combinations from index i on;
\* best_evaluation is <<>> while it is None, and <<evaluation>> afterwards
RECURSIVE BestOf(_, _, _)
BestOf(hands, i, best_evaluation) ==
  IF i > Len(hands) THEN best_evaluation
  ELSE LET evaluation == _evaluate_five_cards(hands[i])
       IN IF best_evaluation = <<>> \/ __gt__(evaluation, best_evaluation[1])
          THEN BestOf(hands, i + 1, <<evaluation>>)
          ELSE BestOf(hands, i + 1, best_evaluation)

\* An evaluate_hand that settles for the first five cards: C30 must not hold
\* of it
evaluate_first_five(hole_cards, community_cards) ==
  LET all_cards == hole_cards \o community_cards
      ranks == SortDesc([i \in 1..Len(all_cards) |-> all_cards[i].rank])
  IN IF Len(all_cards) < 5 THEN HandEvaluation(HIGH_CARD, ranks[1], 0, Tail(ranks))
     ELSE _evaluate_five_cards(SubSeq(all_cards, 1, 5))

\* CardSystem.evaluate_hand
evaluate_hand(hole_cards, community_cards) ==
  LET all_cards == hole_cards \o community_cards
      ranks == SortDesc([i \in 1..Len(all_cards) |-> all_cards[i].rank])
  IN IF Len(all_cards) < 5 THEN HandEvaluation(HIGH_CARD, ranks[1], 0, Tail(ranks))
     ELSE BestOf(combinations(all_cards, 5), 1, <<>>)[1]

\* ============================================================== the machine
VARIABLES
  game,      \* the TexasHoldemGame instance
  lastCall,  \* the last call that was not refused, with its arguments and return
             \* value (a refused call returns False and leaves the instance alone)
  hist       \* bookkeeping of the hand: chips before start_new_hand, roster changes

vars == <<game, lastCall, hist>>

\* A strength for every id: what evaluate_hand returns at a showdown
Evals == [Ids -> 1..MaxRank]

\* The strengths matter only to a call that ran a showdown with players in the
\* hand: then game_results carries an evaluation.  Any other call is computed
\* once, with AnyEval.
AnyEval == [pid \in Ids |-> 1]

UsedEval(g) == \E pid \in DOMAIN g.game_results : g.game_results[pid].hand_evaluation # 0

EvalsFor(g) == IF UsedEval(g) THEN Evals ELSE {AnyEval}

Call(op, pid, action, amount, ret) ==
  [op |-> op, pid |-> pid, action |-> action, amount |-> amount, ret |-> ret]

\* TexasHoldemGame.__init__
NewGame(small_blind, big_blind, max_players) ==
  [small_blind |-> small_blind, big_blind |-> big_blind, max_players |-> max_players,
   game_phase |-> WAITING, hand_number |-> 0, dealer_position |-> 0,
   players |-> <<>>, player_order |-> <<>>, active_players |-> <<>>,
   current_player_index |-> 0, current_player_id |-> None, last_raise_player_id |-> None,
   current_bet |-> 0, deck |-> DeckSize, community_cards |-> 0, main_pot |-> 0,
   side_pots |-> <<>>, action_history |-> [len |-> 0, last |-> <<>>, last_raise |-> 0], game_results |-> <<>>,
   timeout_task |-> "none", timeout_armed |-> [pid |-> None, hand |-> 0, len |-> 0],
   last_phase_starter |-> None, raised |-> FALSE,
   phase_trail |-> <<>>]

Init ==
  /\ \E blinds \in BlindLevels, size \in TableSizes : game = NewGame(blinds[1], blinds[2], size)
  /\ lastCall = Call("__init__", None, None, 0, "None")
  /\ hist = [start_chips |-> <<>>, roster_changed |-> FALSE, joins |-> 0, leaves |-> 0]

\* The ids a caller passes to add_player: one already at the table, or the
\* first free one
FreeIds == SelectSeq(IdSeq, LAMBDA pid : pid \notin DOMAIN game.players)

JoinIds == DOMAIN game.players \cup (IF FreeIds = <<>> THEN {} ELSE {FreeIds[1]})

AddPlayer(pid, chips) ==
  LET r == add_player(game, pid, chips)
  IN /\ r[2] => hist.joins < MaxJoins
     /\ game' = r[1]
     /\ lastCall' = IF r[2] THEN Call("add_player", pid, None, chips, "True")
                    ELSE lastCall
     /\ hist' = IF r[2] THEN [hist EXCEPT !.roster_changed = TRUE, !.joins = @ + 1] ELSE hist

RemovePlayer(pid) ==
  LET r == remove_player(game, pid)
  IN /\ r[2] => hist.leaves < MaxLeaves
     /\ game' = r[1]
     /\ lastCall' = IF r[2] THEN Call("remove_player", pid, None, 0, "True")
                    ELSE lastCall
     /\ hist' = IF r[2] THEN [hist EXCEPT !.roster_changed = TRUE, !.leaves = @ + 1] ELSE hist

\* start_new_hand, for at most max_hands hands
StartHand(max_hands) ==
  /\ game.hand_number < max_hands
  /\ \E ev \in EvalsFor(start_new_hand(game, AnyEval)[1]) :
       LET r == start_new_hand(game, ev)
       IN /\ game' = r[1]
          /\ lastCall' = IF r[2] = "False" THEN lastCall ELSE Call("start_new_hand", None, None, 0, r[2])
          /\ hist' = IF r[2] = "False" THEN hist
                     ELSE [hist EXCEPT !.start_chips = [pid \in DOMAIN game.players |-> game.players[pid].chips],
                                       !.roster_changed = FALSE]

StartNewHand == StartHand(MaxHands)

PlayerActs(pid, action, amount) ==
  \E ev \in (IF _is_valid_action(game, pid, action, amount)
             THEN EvalsFor(handle_player_action(game, pid, action, amount, AnyEval)[1])
             ELSE {AnyEval}) :
    LET r == handle_player_action(game, pid, action, amount, ev)
    IN /\ r[2] => game.action_history.len < MaxActions
       /\ game' = r[1]
       /\ lastCall' = IF r[2] THEN Call("handle_player_action", pid, action, amount, "True")
                      ELSE lastCall
       /\ UNCHANGED hist

\* timeout_handler of _start_action_timeout, once its sleep has elapsed: the
\* task folds for the current player through handle_player_action and ends
TimeoutFires ==
  /\ game.timeout_task = "pending"
  /\ \E ev \in (IF game.current_player_id # None
                   /\ _is_valid_action(game, game.current_player_id, FOLD, 0)
                THEN EvalsFor(handle_player_action(game, game.current_player_id, FOLD, 0, AnyEval)[1])
                ELSE {AnyEval}) :
       LET g0 == [game EXCEPT !.timeout_task = "running"]
           r == IF g0.current_player_id # None
                THEN handle_player_action(g0, g0.current_player_id, FOLD, 0, ev)
                ELSE <<g0, FALSE>>
       IN /\ r[2] => game.action_history.len < MaxActions
          /\ game' = [r[1] EXCEPT !.timeout_task = IF @ = "running" THEN "done" ELSE @]
          /\ lastCall' = Call("timeout", game.current_player_id, FOLD, 0,
                               IF r[2] THEN "True" ELSE "False")
          /\ UNCHANGED hist

Next ==
  \/ \E pid \in JoinIds, chips \in BuyIns : AddPlayer(pid, chips)
  \/ \E pid \in Ids : RemovePlayer(pid)
  \/ StartNewHand
  \/ \E pid \in Ids, action \in PlayerAction :
       \E amount \in (IF action = RAISE THEN RaiseAmounts ELSE {0}) : PlayerActs(pid, action, amount)
  \/ TimeoutFires

Spec == Init /\ [][Next]_vars

\* The table of Spec with the event loop running: a timeout task whose sleep
\* has elapsed is resumed (asyncio runs every task that is ready); the calls of
\* the players are under no such obligation
TimerSpec == Spec /\ WF_vars(TimeoutFires)

\* A heads-up table that plays several hands: two players join, nobody leaves
StartNextHand == StartHand(MaxHeadsUpHands)

HeadsUpNext ==
  \/ \E pid \in JoinIds \cap HeadsUpIds, chips \in BuyIns : AddPlayer(pid, chips)
  \/ StartNextHand
  \/ \E pid \in HeadsUpIds, action \in PlayerAction :
       \E amount \in (IF action = RAISE THEN RaiseAmounts ELSE {0}) : PlayerActs(pid, action, amount)
  \/ TimeoutFires

HeadsUpSpec == Init /\ [][HeadsUpNext]_vars

\* A table of up to three players that plays several hands of push or fold:
\* players go broke, and leave between two hands
StartButtonHand == StartHand(MaxButtonHands)

LeaveBetweenHands(pid) == game.game_phase \in {WAITING, GAME_OVER} /\ RemovePlayer(pid)

PushOrFold(pid, action) == action \in {FOLD, ALL_IN} /\ PlayerActs(pid, action, 0)

ButtonNext ==
  \/ \E pid \in JoinIds, chips \in BuyIns : AddPlayer(pid, chips)
  \/ \E pid \in Ids : LeaveBetweenHands(pid)
  \/ StartButtonHand
  \/ \E pid \in Ids, action \in PlayerAction : PushOrFold(pid, action)

ButtonSpec == Init /\ [][ButtonNext]_vars

\* A heads-up table with deep stacks that plays one hand: there are chips for
\* a raise and a re-raise
DeepStackNext ==
  \/ \E pid \in JoinIds \cap HeadsUpIds, chips \in DeepBuyIns : AddPlayer(pid, chips)
  \/ StartNewHand
  \/ \E pid \in HeadsUpIds, action \in PlayerAction :
       \E amount \in (IF action = RAISE THEN RaiseAmounts ELSE {0}) : PlayerActs(pid, action, amount)
  \/ TimeoutFires

DeepStackSpec == Init /\ [][DeepStackNext]_vars

\* The card system on its own: a hand is dealt from the first MaxDeck cards of
\* a small deck, in deck order, and is evaluated once.  lastCall holds the
\* call and what it returned
SPADES == "spades"
HEARTS == "hearts"
DIAMONDS == "diamonds"
CLUBS == "clubs"

CardPool ==
  <<Card(14, SPADES), Card(2, HEARTS), Card(3, DIAMONDS), Card(4, CLUBS), Card(5, SPADES),
    Card(6, HEARTS), Card(7, DIAMONDS), Card(2, SPADES), Card(3, SPADES), Card(4, SPADES),
    Card(2, DIAMONDS), Card(2, CLUBS), Card(6, SPADES), Card(7, SPADES)>>

EvalDeck == SubSeq(CardPool, 1, Min(MaxDeck, Len(CardPool)))

HandSizes == {2, 5, 6, 7}

Hands5 == Range(combinations(EvalDeck, 5))

DealtHands == UNION {Range(combinations(EvalDeck, k)) : k \in HandSizes}

CardCall(op, cards, ret) == [op |-> op, cards |-> cards, ret |-> ret]

EvalInit ==
  /\ game = NewGame(1, 2, 2)
  /\ \E cards \in DealtHands : lastCall = CardCall("deal", cards, None)
  /\ hist = [start_chips |-> <<>>, roster_changed |-> FALSE, joins |-> 0, leaves |-> 0]

\* _evaluate_five_cards(cards)
EvaluateFive ==
  /\ lastCall.op = "deal"
  /\ Len(lastCall.cards) = 5
  /\ lastCall' = CardCall("_evaluate_five_cards", lastCall.cards, _evaluate_five_cards(lastCall.cards))
  /\ UNCHANGED <<game, hist>>

\* evaluate_hand(hole_cards, community_cards): the first two cards dealt are
\* the hole cards
EvaluateHand ==
  /\ lastCall.op = "deal"
  /\ lastCall' = CardCall("evaluate_hand", lastCall.cards,
                          evaluate_hand(SubSeq(lastCall.cards, 1, 2),
                                        SubSeq(lastCall.cards, 3, Len(lastCall.cards))))
  /\ UNCHANGED <<game, hist>>

EvalNext ==
  \/ EvaluateFive
  \/ EvaluateHand

EvalSpec == EvalInit /\ [][EvalNext]_vars

\* The dealing of a hand card by card, for tables of two to MaxSeats seats:
\* game holds the deck, the hole cards of every seat and the community cards.
\* Suit, in the order of the enumeration
Suits == <<CLUBS, DIAMONDS, HEARTS, SPADES>>

\* CardSystem._create_deck: for suit in Suit: for rank in Rank
_create_deck ==
  [i \in 1..DeckSize |-> Card(((i - 1) % 13) + 2, Suits[((i - 1) \div 13) + 1])]

\* random.shuffle brings the deck into some order: here it is cut at one of a
\* few places, and turned over or not
Cuts == {0, 5, 31}

Shuffles == Cuts \X BOOLEAN

Reverse(s) == [i \in 1..Len(s) |-> s[Len(s) + 1 - i]]

\* CardSystem.shuffle_deck
shuffle_deck(deck, shuffle) ==
  LET cut == SubSeq(deck, shuffle[1] + 1, Len(deck)) \o SubSeq(deck, 1, shuffle[1])
  IN IF shuffle[2] THEN Reverse(cut) ELSE cut

\* CardSystem.reset_deck
reset_deck(shuffle) == shuffle_deck(_create_deck, shuffle)

\* A deal_card that hands out the top card and leaves it on the deck: C38 must
\* not hold of it
deal_card_kept(deck) ==
  IF deck = <<>> THEN <<<<>>, deck>> ELSE <<<<deck[Len(deck)]>>, deck>>

\* CardSystem.deal_card: <<what it returns, the deck afterwards>>; it returns
\* <<card>>, or <<>> for None
deal_card(deck) ==
  IF deck = <<>> THEN <<<<>>, deck>>
  ELSE <<<<deck[Len(deck)]>>, SubSeq(deck, 1, Len(deck) - 1)>>

\* the table before its first hand: seats 1..seats, no cards
NewTable(seats) ==
  [player_order |-> [i \in 1..seats |-> i], funded |-> {}, game_phase |-> WAITING,
   deck |-> _create_deck, hole_cards |-> [i \in 1..seats |-> <<>>], community_cards |-> <<>>,
   hand_number |-> 0, empty_deals |-> 0]

\* the two rounds of _deal_hole_cards, from the k-th visit of a seat on
RECURSIVE HoleCardRounds(_, _)
HoleCardRounds(t, k) ==
  LET n == Len(t.player_order)
      player_id == t.player_order[((k - 1) % n) + 1]
      dealt == deal_card(t.deck)
  IN IF k > 2 * n THEN t
     ELSE IF player_id \notin t.funded THEN HoleCardRounds(t, k + 1)
     ELSE IF dealt[1] = <<>> THEN HoleCardRounds([t EXCEPT !.empty_deals = @ + 1], k + 1)
     ELSE HoleCardRounds([t EXCEPT !.deck = dealt[2],
                                   !.hole_cards[player_id] = Append(@, dealt[1][1])], k + 1)

\* start_new_hand as far as the cards go: clear the community cards and the
\* hole cards, then _deal_hole_cards with a new deck
DealHoleCardsTo(t, funded, shuffle) ==
  HoleCardRounds([t EXCEPT !.game_phase = PRE_FLOP, !.hand_number = @ + 1,
                           !.funded = funded, !.community_cards = <<>>,
                           !.hole_cards = [i \in DOMAIN t.hole_cards |-> <<>>],
                           !.deck = reset_deck(shuffle)], 1)

\* deal_card for n community cards
RECURSIVE CommunityCards(_, _)
CommunityCards(t, n) ==
  LET dealt == deal_card(t.deck)
  IN IF n = 0 THEN t
     ELSE IF dealt[1] = <<>> THEN CommunityCards([t EXCEPT !.empty_deals = @ + 1], n - 1)
     ELSE CommunityCards([t EXCEPT !.deck = dealt[2], !.community_cards = Append(@, dealt[1][1])], n - 1)

\* _deal_flop, _deal_turn, _deal_river: one card is discarded, n are dealt
BurnAndDeal(t, n) ==
  LET burn == deal_card(t.deck)
  IN CommunityCards([t EXCEPT !.deck = burn[2],
                              !.empty_deals = IF burn[1] = <<>> THEN @ + 1 ELSE @], n)

DealInit ==
  /\ \E seats \in 2..MaxSeats : game = NewTable(seats)
  /\ lastCall = Call("__init__", None, None, 0, "None")
  /\ hist = [start_chips |-> <<>>, roster_changed |-> FALSE, joins |-> 0, leaves |-> 0]

\* the sets of seats with chips at the start of a hand: everybody, or all but
\* one
FundedSets == {DOMAIN game.hole_cards \ broke : broke \in {{}} \cup {{i} : i \in DOMAIN game.hole_cards}}

\* start_new_hand, in any phase, for at most MaxDeals hands
DealHoleCards ==
  /\ game.hand_number < MaxDeals
  /\ \E funded \in FundedSets, shuffle \in Shuffles :
       game' = DealHoleCardsTo(game, funded, shuffle)
  /\ lastCall' = Call("start_new_hand", None, None, 0, "True")
  /\ UNCHANGED hist

\* _advance_to_next_phase as far as the cards go
DealNextStreet ==
  /\ game.game_phase \in {PRE_FLOP, FLOP, TURN}
  /\ game' = IF game.game_phase = PRE_FLOP THEN [BurnAndDeal(game, 3) EXCEPT !.game_phase = FLOP]
             ELSE IF game.game_phase = FLOP THEN [BurnAndDeal(game, 1) EXCEPT !.game_phase = TURN]
             ELSE [BurnAndDeal(game, 1) EXCEPT !.game_phase = RIVER]
  /\ lastCall' = Call("_advance_to_next_phase", None, None, 0, "None")
  /\ UNCHANGED hist

DealNext ==
  \/ DealHoleCards
  \/ DealNextStreet

DealSpec == DealInit /\ [][DealNext]_vars

\* ================================================================ the claims
Betting == game.game_phase \in {PRE_FLOP, FLOP, TURN, RIVER}

Registered == DOMAIN game.players

\* the sum of a function from player ids to numbers
SumFn(f) == SumSeq([i \in 1..Len(IdSeq) |-> IF IdSeq[i] \in DOMAIN f THEN f[IdSeq[i]] ELSE 0])

ChipsOf(g) == [pid \in DOMAIN g.players |-> g.players[pid].chips]

TotalChips(g) == SumFn(ChipsOf(g))

StartTotal == SumFn(hist.start_chips)

\* A hand was started, nobody joined or left during it, and it is over
HandOverSameRoster == game.hand_number >= 1 /\ game.game_phase = GAME_OVER /\ ~hist.roster_changed

\* C1: chip conservation.  When a hand during which nobody joined or left has
\* reached GameOver, the players' chips sum to what they summed to right
\* before start_new_hand.
C1_ChipConservation == HandOverSameRoster => TotalChips(game) = StartTotal

\* ---------------------------------------------------------------------- C2
\* The inputs of handle_player_action
ActionInputs == {<<action, amount>> \in PlayerAction \X ({0} \cup RaiseAmounts) : action = RAISE <=> amount # 0}

\* The call handle_player_action(pid, action, amount) is one the engine has to
\* refuse: an unknown id, a wrong turn, no hand in progress, a check facing a
\* bet, a call with nothing to call or with too few chips, a raise below the
\* big blind or with too few chips, an all-in without chips.
MustRefuse(g, pid, action, amount) ==
  \/ pid \notin DOMAIN g.players
  \/ pid # g.current_player_id
  \/ g.game_phase \in {WAITING, GAME_OVER}
  \/ LET p == g.players[pid]
         gap == g.current_bet - p.current_bet
     IN \/ action = CHECK /\ p.current_bet < g.current_bet
        \/ action = CALL /\ (gap <= 0 \/ p.chips < gap)
        \/ action = RAISE /\ (amount < g.big_blind \/ p.chips < gap + amount)
        \/ action = ALL_IN /\ p.chips <= 0

ActionStep == lastCall'.op \in {"handle_player_action", "timeout"} /\ lastCall'.ret = "True"

\* The instance of an ActionStep once the action is applied and recorded, when
\* handle_player_action decides whether the betting round is closed
Applied ==
  _record_action(ApplyAction([Entered(game) EXCEPT !.timeout_task = cancel(@)],
                             lastCall'.pid, lastCall'.action, lastCall'.amount),
                 lastCall'.pid, lastCall'.action, lastCall'.amount)

Unfolded(g) == {pid \in DOMAIN g.players : is_in_hand(g.players[pid])}

\* un-folded, not all-in, with chips
CanStillAct(g) == {pid \in Unfolded(g) : g.players[pid].status # ALL_IN /\ g.players[pid].chips > 0}

\* the betting round closed: the phase moved on
RoundClosed == game'.game_phase # game.game_phase

\* ---------------------------------------------------------------------- C3
\* C3: a betting round does not close while at least two players are
\* un-folded and some un-folded player who can still act has not acted in
\* this round (last_action is None), whatever that player's current_bet.
C3_UnactedKeepsRoundOpen ==
  [][(/\ ActionStep
      /\ Cardinality(Unfolded(Applied)) >= 2
      /\ \E pid \in CanStillAct(Applied) : Applied.players[pid].last_action = None)
     => ~RoundClosed]_vars

\* ---------------------------------------------------------------------- C4
\* C4: a betting round does not close while at least two players are
\* un-folded and some un-folded player who can still act is below the table's
\* current bet.
C4_UnmatchedKeepsRoundOpen ==
  [][(/\ ActionStep
      /\ Cardinality(Unfolded(Applied)) >= 2
      /\ \E pid \in CanStillAct(Applied) : Applied.players[pid].current_bet < Applied.current_bet)
     => ~RoundClosed]_vars

\* ---------------------------------------------------------------------- C5
\* The next player after prev, in the order of player_order and wrapping
\* around, who is un-folded, not all-in and has chips
NextSeat(g, prev) ==
  LET order == g.player_order
      n == Len(order)
      dist(pid) == (IndexOf(order, pid) - IndexOf(order, prev) - 1) % n
  IN CHOOSE pid \in CanStillAct(g) : \A q \in CanStillAct(g) : dist(pid) <= dist(q)

\* C5: when an accepted action does not close the betting round, the new
\* current actor is the next seat after the previous actor that is un-folded,
\* not all-in and has chips; and during PreFlop..River, while some player can
\* still act, the current actor is never a folded or all-in player.
C5_NextActor ==
  [][/\ (ActionStep /\ ~RoundClosed /\ CanStillAct(Applied) # {})
          => game'.current_player_id = NextSeat(Applied, lastCall'.pid)
     /\ (game'.game_phase \in {PRE_FLOP, FLOP, TURN, RIVER}
         /\ CanStillAct(game') # {}
         /\ game'.current_player_id \in DOMAIN game'.players)
          => game'.players[game'.current_player_id].status \notin {FOLDED, ALL_IN}]_vars

\* ---------------------------------------------------------------------- C6
\* A step that folds a player: a Fold accepted from the player or from the
\* timeout task, or remove_player of a player who is still in the hand
FoldStep ==
  \/ ActionStep /\ lastCall'.action = FOLD
  \/ lastCall'.op = "remove_player" /\ lastCall'.pid \in Unfolded(game)

PotsTotal(g) == g.main_pot + SumSeq([i \in 1..Len(g.side_pots) |-> g.side_pots[i].amount])

\* C6: when a Fold (manual, by timeout, or forced by remove_player) during
\* PreFlop..River leaves exactly one un-folded player, that same step gives
\* this player the full pot, sets the phase to GameOver, evaluates no hand
\* (hand_evaluation is None for every player in the results) and leaves a
\* state in which no action of any player is accepted.
C6_LastPlayerWins ==
  [][(/\ FoldStep /\ Betting
      /\ lastCall'.pid \in Unfolded(game)
      /\ Cardinality(Unfolded(game) \ {lastCall'.pid}) = 1)
     => LET winner == CHOOSE pid \in Unfolded(game) \ {lastCall'.pid} : TRUE
        IN /\ winner \in DOMAIN game'.players
           /\ game'.players[winner].chips = game.players[winner].chips + PotsTotal(game)
           /\ game'.game_phase = GAME_OVER
           /\ winner \in DOMAIN game'.game_results
           /\ game'.game_results[winner].won
           /\ \A pid \in DOMAIN game'.game_results : game'.game_results[pid].hand_evaluation = 0
           /\ \A pid \in Ids, in \in ActionInputs : ~_is_valid_action(game', pid, in[1], in[2])]_vars

\* C6 witness: the timeout task folded for the current player, which left one
\* un-folded player, who won a pot larger than their own bets
C6_Witness ==
  /\ lastCall.op = "timeout" /\ lastCall.ret = "True"
  /\ game.game_phase = GAME_OVER
  /\ Cardinality(Unfolded(game)) = 1
  /\ \E pid \in Unfolded(game) :
       /\ pid \in DOMAIN game.game_results
       /\ game.game_results[pid].won /\ game.game_results[pid].profit > 0
       /\ game.game_results[pid].hand_evaluation = 0

\* ---------------------------------------------------------------------- C7
\* the order of the phases of a hand
NextPhase(phase) ==
  IF phase = PRE_FLOP THEN FLOP
  ELSE IF phase = FLOP THEN TURN
  ELSE IF phase = TURN THEN RIVER
  ELSE IF phase = RIVER THEN SHOWDOWN
  ELSE IF phase = SHOWDOWN THEN GAME_OVER
  ELSE None

\* The phases a step goes through, from the phase it starts in; start_new_hand
\* begins a hand, so its phases start at the first one it sets.
PhasesOfStep ==
  IF lastCall'.op = "start_new_hand" THEN game'.phase_trail
  ELSE <<game.game_phase>> \o game'.phase_trail

\* C7: within a hand every change of phase goes one step along PreFlop, Flop,
\* Turn, River, Showdown, GameOver, or jumps from PreFlop, Flop, Turn or River
\* to GameOver with exactly one player un-folded.
C7_PhaseOrder ==
  [][\A i \in 1..(Len(PhasesOfStep) - 1) :
       LET from == PhasesOfStep[i]
           to == PhasesOfStep[i + 1]
       IN from \in {PRE_FLOP, FLOP, TURN, RIVER, SHOWDOWN}
            => \/ to = NextPhase(from)
               \/ /\ from # SHOWDOWN /\ to = GAME_OVER
                  /\ Cardinality(Unfolded(game')) = 1]_vars

\* ---------------------------------------------------------------------- C8
\* community cards of a phase, and burn cards discarded up to it
CommunityOf(phase) ==
  IF phase = PRE_FLOP THEN 0 ELSE IF phase = FLOP THEN 3 ELSE IF phase = TURN THEN 4 ELSE 5

BurnsOf(phase) ==
  IF phase = PRE_FLOP THEN 0 ELSE IF phase = FLOP THEN 1 ELSE IF phase = TURN THEN 2 ELSE 3

\* players with chips right before start_new_hand: each was dealt two cards
DealtIn == {pid \in DOMAIN hist.start_chips : hist.start_chips[pid] > 0}

\* the phase is one of the streets, or GameOver reached through a showdown
AtStreetOrShowdown ==
  \/ Betting
  \/ game.game_phase = GAME_OVER /\ Contains(game.phase_trail, SHOWDOWN)

\* C8: the phase determines the number of community cards (0 in PreFlop, 3 in
\* Flop, 4 in Turn, 5 in River and at a showdown), and the deck has lost, next
\* to the hole cards and the community cards, one burn card per street dealt.
C8_CommunityCards ==
  AtStreetOrShowdown =>
    /\ game.community_cards = CommunityOf(game.game_phase)
    /\ game.deck = DeckSize - 2 * Cardinality(DealtIn)
                     - CommunityOf(game.game_phase) - BurnsOf(game.game_phase)

\* C8 witness: a hand that was played to the river by actions of the players
C8_Witness ==
  /\ game.game_phase = RIVER /\ game.community_cards = 5
  /\ lastCall.op = "handle_player_action"
  /\ Cardinality(CanStillAct(game)) >= 2

\* ---------------------------------------------------------------------- C9
\* the current actor, when it is a registered player
HasActor == Betting /\ game.current_player_id \in Registered

Actor == game.players[game.current_player_id]

\* C9: a Check by the current actor is accepted iff the actor's current_bet
\* equals the table's current bet; applying an accepted Check changes no
\* player's chips or bets and not the pot.
C9_Check ==
  [][/\ HasActor => (_is_valid_action(game, game.current_player_id, CHECK, 0)
                       <=> Actor.current_bet = game.current_bet)
     /\ (ActionStep /\ lastCall'.action = CHECK)
          => /\ Applied.main_pot = game.main_pot
             /\ Applied.current_bet = game.current_bet
             /\ \A pid \in Registered :
                  /\ Applied.players[pid].chips = game.players[pid].chips
                  /\ Applied.players[pid].current_bet = game.players[pid].current_bet
                  /\ Applied.players[pid].total_bet = game.players[pid].total_bet]_vars

\* --------------------------------------------------------------------- C10
CallGap == game.current_bet - Actor.current_bet

\* C10: a Call by the current actor is accepted iff the gap between the
\* table's current bet and the actor's current_bet is positive and the actor's
\* chips cover it; applying an accepted Call moves exactly the gap from the
\* actor's chips to the main pot, leaves the actor's current_bet at the
\* table's current bet, and makes the actor all-in exactly when no chips are
\* left; a Call that does not close the round leaves just that in the instance.
C10_Call ==
  [][/\ HasActor => (_is_valid_action(game, game.current_player_id, CALL, 0)
                       <=> (CallGap > 0 /\ Actor.chips >= CallGap))
     /\ (ActionStep /\ lastCall'.action = CALL)
          => LET before == game.players[lastCall'.pid]
                 after == Applied.players[lastCall'.pid]
                 gap == game.current_bet - before.current_bet
             IN /\ after.chips = before.chips - gap
                /\ Applied.main_pot = game.main_pot + gap
                /\ after.total_bet = before.total_bet + gap
                /\ after.current_bet = Applied.current_bet
                /\ Applied.current_bet = game.current_bet
                /\ (after.status = ALL_IN) <=> (after.chips = 0)
                /\ \A pid \in Registered \ {lastCall'.pid} : Applied.players[pid] = game.players[pid]
                /\ ~RoundClosed
                     => /\ game'.players[lastCall'.pid] = after
                        /\ game'.main_pot = Applied.main_pot
                        /\ game'.current_bet = Applied.current_bet]_vars

\* --------------------------------------------------------------------- C11
\* the amount of the last raise recorded in the current betting round, 0 when
\* nobody has raised in it
LastRaise(g) == g.action_history.last_raise

\* the minimum raise: the big blind, or the increment of the last raise
MinRaise(g) == IF LastRaise(g) = 0 THEN g.big_blind ELSE LastRaise(g)

\* C11: a Raise of `amount` by the current actor (who can act) is accepted iff
\* amount is at least the minimum raise and the actor's chips cover the call
\* gap plus amount; the minimum raise is the big blind when nobody has raised
\* in the round and the increment of the round's last raise otherwise.
C11_Raise ==
  (HasActor /\ can_act(Actor)) =>
    \A amount \in RaiseAmounts :
      _is_valid_action(game, game.current_player_id, RAISE, amount)
        <=> (amount >= MinRaise(game) /\ Actor.chips >= CallGap + amount)

\* --------------------------------------------------------------------- C12
\* C12: during a hand (PreFlop..River) no player's current_bet is above the
\* table's current bet, right after the blinds included.
C12_BetAtMostTableBet ==
  Betting => \A pid \in Registered : game.players[pid].current_bet <= game.current_bet

\* ------------------------------------------------------------ the showdown
\* The state a showdown leaves: _handle_showdown computed the side pots and
\* paid them, and nothing has touched total_bet, main_pot or side_pots since
AtShowdown == game.game_phase = GAME_OVER /\ Contains(game.phase_trail, SHOWDOWN)

SidePotsTotal(g) == SumSeq([i \in 1..Len(g.side_pots) |-> g.side_pots[i].amount])

TotalBets(g) == SumFn([pid \in DOMAIN g.players |-> g.players[pid].total_bet])

\* --------------------------------------------------------------------- C13
\* C13: when the side pots are computed at a showdown, their amounts sum to
\* the sum of the players' total_bet and to the main pot accumulated during
\* the hand.
C13_SidePotsSum ==
  AtShowdown => /\ SidePotsTotal(game) = TotalBets(game)
                /\ SidePotsTotal(game) = game.main_pot

\* --------------------------------------------------------------------- C14
\* the distinct contribution levels, and the level below a level
Levels(g) == {g.players[pid].total_bet : pid \in DOMAIN g.players} \ {0}

LevelNo(g, i) == CHOOSE L \in Levels(g) : Cardinality({l \in Levels(g) : l < L}) = i - 1

LevelBelow(g, L) ==
  IF \E l \in Levels(g) : l < L
  THEN CHOOSE l \in Levels(g) : l < L /\ \A m \in Levels(g) : m < L => m <= l
  ELSE 0

AtLeast(g, L) == {pid \in DOMAIN g.players : g.players[pid].total_bet >= L}

\* C14: the side pots of a showdown are the layers of the distinct total_bet
\* levels in ascending order: the pot of level L holds (L - level below) times
\* the number of players with total_bet >= L, and exactly those players are
\* eligible for it.
C14_SidePotLayers ==
  (AtShowdown /\ Levels(game) # {}) =>
    /\ Len(game.side_pots) = Cardinality(Levels(game))
    /\ \A i \in 1..Len(game.side_pots) :
         LET L == LevelNo(game, i)
             pot == game.side_pots[i]
         IN /\ pot.amount = (L - LevelBelow(game, L)) * Cardinality(AtLeast(game, L))
            /\ Range(pot.eligible_players) = AtLeast(game, L)
            /\ Len(pot.eligible_players) = Cardinality(AtLeast(game, L))

\* C14 witness: one player all-in for less than two others, who both put in
\* the same larger amount, all three at the showdown: two pots, the first for
\* the three of them, the second for the two
C14_Witness ==
  /\ AtShowdown /\ Len(game.side_pots) = 2
  /\ Cardinality(Unfolded(game)) = 3
  /\ Len(game.side_pots[1].eligible_players) = 3
  /\ Len(game.side_pots[2].eligible_players) = 2
  /\ game.side_pots[1].amount = 3 * LevelNo(game, 1)
  /\ game.side_pots[2].amount = 2 * (LevelNo(game, 2) - LevelNo(game, 1))

\* --------------------------------------------------------------------- C15
\* C15: every side pot of a showdown has an eligible player who has not folded.
C15_PotHasLiveEligible ==
  AtShowdown => \A i \in 1..Len(game.side_pots) :
                  Range(game.side_pots[i].eligible_players) \cap Unfolded(game) # {}

\* --------------------------------------------------------------------- C16
\* a step whose call went through the showdown
ShowdownStep == ActionStep /\ Contains(game'.phase_trail, SHOWDOWN)

LiveEligible(g, pot) == Range(pot.eligible_players) \cap Unfolded(g)

HandOf(g, pid) == g.game_results[pid].hand_evaluation

PotWinners(g, pot) ==
  {pid \in LiveEligible(g, pot) : \A q \in LiveEligible(g, pot) : HandOf(g, q) <= HandOf(g, pid)}

\* how many of the winners sit before pid
Place(g, winners, pid) ==
  Cardinality({q \in winners : IndexOf(g.player_order, q) < IndexOf(g.player_order, pid)})

\* what the pot pays to pid: an even share to each winner, and one more chip
\* to the first (amount mod n) winners in seating order
Share(g, pot, pid) ==
  LET winners == PotWinners(g, pot)
      n == Cardinality(winners)
  IN IF pid \notin winners THEN 0
     ELSE (pot.amount \div n) + (IF Place(g, winners, pid) < pot.amount % n THEN 1 ELSE 0)

PotShares(g, pot) == SumFn([pid \in DOMAIN g.players |-> Share(g, pot, pid)])

\* C16: a showdown pays every side pot on its own to exactly the un-folded
\* eligible players whose evaluation is maximal among the pot's un-folded
\* eligible players; n tied winners get floor(amount/n) or floor(amount/n)+1
\* each, the shares of a pot with winners sum to its amount, the odd chips go
\* to the first winners in seating order, and the phase is GameOver afterwards.
C16_PotsAwarded ==
  [][ShowdownStep =>
       LET before == Applied
           after == game'
       IN /\ after.game_phase = GAME_OVER
          /\ \A pid \in DOMAIN after.players :
               after.players[pid].chips - before.players[pid].chips
                 = SumSeq([i \in 1..Len(after.side_pots) |-> Share(after, after.side_pots[i], pid)])
          /\ \A i \in 1..Len(after.side_pots) :
               PotWinners(after, after.side_pots[i]) # {}
                 => PotShares(after, after.side_pots[i]) = after.side_pots[i].amount]_vars

\* C16 witness: a showdown left two pots, the first split between two tied
\* winners with a chip over, the second won by one player alone
C16_Witness ==
  /\ AtShowdown /\ Len(game.side_pots) = 2
  /\ Cardinality(PotWinners(game, game.side_pots[1])) = 2
  /\ game.side_pots[1].amount % 2 = 1
  /\ Cardinality(PotWinners(game, game.side_pots[2])) = 1
  /\ PotWinners(game, game.side_pots[2]) \subseteq PotWinners(game, game.side_pots[1])

\* --------------------------------------------------------------------- C17
\* the timeout task's sleep elapsed in this step
TimeoutStep == game.timeout_task = "pending" /\ lastCall'.op = "timeout"

\* handle_player_action accepted a player's own action in this step
ManualStep == lastCall'.op = "handle_player_action" /\ lastCall'.ret = "True"

\* The turn the pending task was created in is still open: the same hand, the
\* same current player, still registered, nothing recorded since, a betting phase
TimerTurnOpen(g) ==
  /\ g.game_phase \in {PRE_FLOP, FLOP, TURN, RIVER}
  /\ g.timeout_armed.pid # None
  /\ g.timeout_armed.pid = g.current_player_id
  /\ g.timeout_armed.pid \in DOMAIN g.players
  /\ g.timeout_armed.hand = g.hand_number
  /\ g.timeout_armed.len = g.action_history.len

C18_TimeoutFolds ==
  [][(TimeoutStep /\ TimerTurnOpen(game)) =>
       LET actor == game.current_player_id
           rest == Unfolded(game) \ {actor}
       IN /\ lastCall'.ret = "True" /\ lastCall'.pid = actor
          /\ game'.players[actor].status = FOLDED
          /\ game'.action_history.len = game.action_history.len + 1
          /\ SubSeq(game'.action_history.last, 1, 3) = <<actor, FOLD, 0>>
          /\ \E ev \in Evals : game' = handle_player_action(game, actor, FOLD, 0, ev)[1]
          /\ Cardinality(rest) = 1 =>
               /\ game'.game_phase = GAME_OVER
               /\ \A pid \in rest :
                    game'.players[pid].chips = game.players[pid].chips + PotsTotal(game)]_vars

\* --------------------------------------------------------------------- C19
\* the engine waits for the current actor: a betting phase with a current player
WaitingForActor(g) ==
  /\ g.game_phase \in {PRE_FLOP, FLOP, TURN, RIVER}
  /\ g.current_player_id # None

\* the tasks of the instance that are not finished and not cancelled
Outstanding(g) == IF g.timeout_task \in {"pending", "running"} THEN 1 ELSE 0

\* C19: at most one timer is outstanding in every state, and exactly one
\* whenever a betting phase waits for the current actor's input.
C19_OneTimer ==
  /\ Outstanding(game) <= 1
  /\ WaitingForActor(game) => Outstanding(game) = 1

\* --------------------------------------------------------------------- C20
\* the registered players with chips
Funded(g) == {pid \in DOMAIN g.players : g.players[pid].chips > 0}

\* start_new_hand was called in this step and did not return False
StartStep == lastCall'.op = "start_new_hand" /\ game'.hand_number # game.hand_number

\* C20: start_new_hand starts a hand only if at least two registered players
\* have chips; with fewer it returns False and changes nothing of the game.
C20_StartNeedsTwoFunded ==
  [][StartStep => Cardinality(Funded(game)) >= 2]_vars

\* --------------------------------------------------------------------- C21
\* start_new_hand returned True in this step
StartedStep == StartStep /\ lastCall'.ret = "True"

\* the players carrying a flag ("is_dealer", "is_small_blind", "is_big_blind")
Flagged(g, flag) == {pid \in DOMAIN g.players : g.players[pid][flag]}

\* the funded players in seating order, and the one following pid among them
FundedSeats(g) == InOrder(g, Funded(g))

NextIn(seats, pid) == seats[(IndexOf(seats, pid) % Len(seats)) + 1]

\* C21: after a successful start_new_hand exactly one player is the dealer,
\* one the small blind and one the big blind, all three funded when the hand
\* started and the two blinds different players; heads-up the dealer is the
\* small blind and the other player the big blind, with three or more the
\* small blind is the next funded seat after the dealer and the big blind
\* the next funded seat after the small blind.
C21_DealerAndBlinds ==
  [][StartedStep =>
       LET seats == FundedSeats(game)
           dealers == Flagged(game', "is_dealer")
           sbs == Flagged(game', "is_small_blind")
           bbs == Flagged(game', "is_big_blind")
       IN /\ Cardinality(dealers) = 1 /\ Cardinality(sbs) = 1 /\ Cardinality(bbs) = 1
          /\ (dealers \cup sbs \cup bbs) \subseteq Funded(game)
          /\ sbs \cap bbs = {}
          /\ Len(seats) = 2 => (sbs = dealers /\ bbs = Funded(game) \ dealers)
          /\ Len(seats) >= 3 =>
               /\ \A d \in dealers : sbs = {NextIn(seats, d)}
               /\ \A sb \in sbs : bbs = {NextIn(seats, sb)}]_vars

\* --------------------------------------------------------------------- C22
\* how many seats after pid the player q sits, going round the table
SeatsAfter(g, pid, q) ==
  (IndexOf(g.player_order, q) - IndexOf(g.player_order, pid) - 1) % Len(g.player_order)

\* the first funded player after pid in seating order, wrapping around
NextFundedAfter(g, pid) ==
  CHOOSE q \in Funded(g) : \A r \in Funded(g) : SeatsAfter(g, pid, q) <= SeatsAfter(g, pid, r)

\* C22: from a finished hand to the next the button moves one seat among the funded
\* players: the dealer of the new hand is the first funded player after the
\* dealer of the hand before, also when a player went broke or left between
\* the two hands.
C22_ButtonAdvances ==
  [][(/\ StartedStep /\ game.hand_number >= 1 /\ game.game_phase = GAME_OVER
      /\ Cardinality(Funded(game)) >= 2
      /\ Cardinality(Flagged(game, "is_dealer")) = 1)
     => \A d \in Flagged(game, "is_dealer") :
          Flagged(game', "is_dealer") = {NextFundedAfter(game, d)}]_vars

\* --------------------------------------------------------------------- C23
\* what a player with these chips posts for a blind
Posted(blind, chips) == IF blind <= chips THEN blind ELSE chips

\* C23: after a successful start_new_hand the small blind has put in
\* min(small_blind, chips) and the big blind min(big_blind, chips), nobody
\* else has put in anything, the main pot is the sum of the two, a poster who
\* put in all their chips is AllIn and, while the hand waits for its first
\* action, each poster holds their chips less the blind and every other
\* player the chips they had.
C23_BlindsPosted ==
  [][StartedStep =>
       LET before(pid) == game.players[pid].chips
           blind(pid) == IF game'.players[pid].is_small_blind THEN Posted(game.small_blind, before(pid))
                         ELSE IF game'.players[pid].is_big_blind THEN Posted(game.big_blind, before(pid))
                         ELSE 0
       IN /\ \A pid \in DOMAIN game'.players :
               /\ game'.players[pid].total_bet = blind(pid)
               /\ (blind(pid) > 0 /\ blind(pid) = before(pid)) => game'.players[pid].status = ALL_IN
               /\ game'.game_phase = PRE_FLOP => game'.players[pid].chips = before(pid) - blind(pid)
          /\ game'.main_pot = SumFn([pid \in DOMAIN game'.players |-> blind(pid)])]_vars

\* a hand of three has started and waits for its first action: the small
\* blind posted in full, the big blind was short and is all-in for less, the
\* third player holds what they had
C23_Witness ==
  /\ lastCall.op = "start_new_hand" /\ lastCall.ret = "True" /\ game.game_phase = PRE_FLOP
  /\ \E sb, bb, other \in DOMAIN game.players :
       /\ game.players[sb].is_small_blind /\ game.players[sb].total_bet = game.small_blind
       /\ game.players[sb].chips > 0
       /\ game.players[bb].is_big_blind /\ game.players[bb].total_bet < game.big_blind
       /\ game.players[bb].chips = 0 /\ game.players[bb].status = ALL_IN
       /\ other \notin {sb, bb} /\ game.players[other].total_bet = 0
       /\ game.players[other].chips = hist.start_chips[other]
       /\ game.main_pot = game.players[sb].total_bet + game.players[bb].total_bet

\* --------------------------------------------------------------------- C24
\* the players of the hand who can act
Able(g) == {pid \in Unfolded(g) : can_act(g.players[pid])}

\* the first player after pid in seating order who can act
FirstAbleAfter(g, pid) ==
  CHOOSE q \in Able(g) : \A r \in Able(g) : SeatsAfter(g, pid, q) <= SeatsAfter(g, pid, r)

\* C24: when a successful start_new_hand leaves the hand waiting in PreFlop,
\* the first actor is, with three or more players dealt in, the first player
\* after the big blind in seating order who can act, and with two players
\* dealt in the small blind (if they can act), also when a blind poster is
\* all-in from the blind.
C24_FirstActorPreFlop ==
  [][(StartedStep /\ game'.game_phase = PRE_FLOP /\ Able(game') # {}
      /\ Cardinality(Flagged(game', "is_big_blind")) = 1
      /\ Cardinality(Flagged(game', "is_small_blind")) = 1)
     => /\ Cardinality(Funded(game)) >= 3 =>
             \A bb \in Flagged(game', "is_big_blind") :
               game'.current_player_id = FirstAbleAfter(game', bb)
        /\ Cardinality(Funded(game)) = 2 =>
             \A sb \in Flagged(game', "is_small_blind") :
               sb \in Able(game') => game'.current_player_id = sb]_vars

\* --------------------------------------------------------------------- C25
\* an accepted action closed the round and the hand waits on the next street
StreetOpens(street) ==
  /\ ActionStep /\ NextPhase(game.game_phase) = street
  /\ game'.game_phase = street /\ game'.phase_trail = <<street>>
  /\ Able(game') # {}

\* C25: on the Flop the first actor is the small blind if they can still act,
\* otherwise the next seat after the small blind that can still act; on the
\* Turn and the River it is the player who follows the first actor of the
\* street before among the players who can still act.
C25_FirstActorPostFlop ==
  [][/\ StreetOpens(FLOP) =>
          \A sb \in Flagged(game', "is_small_blind") :
            game'.current_player_id = IF sb \in Able(game') THEN sb ELSE FirstAbleAfter(game', sb)
     /\ ((StreetOpens(TURN) \/ StreetOpens(RIVER)) /\ game.last_phase_starter \in DOMAIN game'.players) =>
          game'.current_player_id = FirstAbleAfter(game', game.last_phase_starter)]_vars

\* --------------------------------------------------------------------- C26
\* C26: add_player seats a new player at a free seat: whatever add_player and
\* remove_player calls were made, no two registered players have the same
\* position.
C26_DistinctSeats ==
  \A pid \in Registered, other \in Registered :
    pid # other => game.players[pid].position # game.players[other].position

\* --------------------------------------------------------------------- C27
\* remove_player took a registered player away in this step
RemoveStep ==
  /\ lastCall'.op = "remove_player"
  /\ lastCall'.pid \in DOMAIN game.players /\ lastCall'.pid \notin DOMAIN game'.players

\* C27: remove_player of a player who is in the hand during PreFlop..River
\* folds for that player first: a single un-folded player left takes the
\* whole pot and the phase is GameOver, and with more left nobody else's
\* chips, bets or status change and the pot keeps the leaver's chips; then the
\* player is gone from the table.  With fewer than two registered players
\* left the phase is GameOver and no timer is outstanding.  For an unknown id
\* remove_player returns False and changes nothing.
C27_RemoveFoldsFirst ==
  [][/\ RemoveStep =>
          LET leaver == lastCall'.pid
              rest == Unfolded(game) \ {leaver}
          IN /\ ~Contains(game'.player_order, leaver) /\ ~Contains(game'.active_players, leaver)
             /\ DOMAIN game'.players = DOMAIN game.players \ {leaver}
             /\ (Betting /\ leaver \in Unfolded(game)) =>
                  /\ Cardinality(rest) = 1 =>
                       /\ game'.game_phase = GAME_OVER
                       /\ \A w \in rest :
                            /\ game'.players[w].chips = game.players[w].chips + PotsTotal(game)
                            /\ game'.game_results[w].won
                            /\ game'.game_results[leaver].profit = 0 - game.players[leaver].total_bet
                  /\ Cardinality(rest) >= 2 =>
                       /\ \A pid \in DOMAIN game'.players : game'.players[pid] = game.players[pid]
                       /\ game'.main_pot = game.main_pot
                       /\ game'.game_phase = game.game_phase
             /\ Cardinality(DOMAIN game'.players) < 2 =>
                  /\ game'.game_phase = GAME_OVER
                  /\ Outstanding(game') = 0
     /\ \A pid \in Ids \ DOMAIN game.players : remove_player(game, pid) = <<game, FALSE>>]_vars

\* a player left in the middle of a hand of three of which one had folded:
\* the remaining player won the pot, the leaver's bets included
C27_Witness ==
  /\ lastCall.op = "remove_player" /\ lastCall.pid \notin Registered
  /\ game.game_phase = GAME_OVER /\ Cardinality(Registered) = 2
  /\ lastCall.pid \in DOMAIN game.game_results
  /\ game.game_results[lastCall.pid].profit < 0
  /\ \E w \in Registered : game.game_results[w].won /\ game.game_results[w].profit > 0
  /\ \E f \in Registered : game.players[f].status = FOLDED

\* --------------------------------------------------------------------- C28
\* A hand that nobody joined or left has reached GameOver with results: by
\* the showdown or by the last player standing
HandSettled ==
  /\ game.hand_number >= 1 /\ game.game_phase = GAME_OVER
  /\ game.game_results # <<>> /\ ~hist.roster_changed

\* C28: when a hand reaches GameOver by the showdown or by the last player
\* standing, the results have one entry for every registered player, with
\* final_chips the player's chips, profit the player's chips less the chips
\* they had before start_new_hand, won true for every player who was paid
\* from a pot, and the profits sum to 0.
C28_Results ==
  HandSettled =>
    /\ DOMAIN game.game_results = Registered
    /\ \A pid \in Registered :
         LET result == game.game_results[pid]
         IN /\ result.final_chips = game.players[pid].chips
            /\ result.profit = game.players[pid].chips - hist.start_chips[pid]
            /\ result.profit + game.players[pid].total_bet > 0 => result.won
    /\ SumFn([pid \in Registered |-> game.game_results[pid].profit]) = 0

\* the evaluations of all five-card hands of the deck
FiveCardEvaluations == {_evaluate_five_cards(cards) : cards \in Hands5}

\* tier, primary value, secondary value and kickers as one list of numbers
Key(evaluation) ==
  <<rank_value(evaluation.hand_rank), evaluation.primary_value, evaluation.secondary_value>>
    \o evaluation.kickers

\* s comes before t in the lexicographic order
LexLess(s, t) ==
  \E i \in 1..Min(Len(s), Len(t)) : s[i] < t[i] /\ \A j \in 1..(i - 1) : s[j] = t[j]

RanksOf(cards) == SortDesc([i \in 1..Len(cards) |-> cards[i].rank])

OneSuit(cards) == Cardinality({cards[i].suit : i \in 1..Len(cards)}) = 1

FiveEvaluated == lastCall.op = "_evaluate_five_cards"

\* C29: the evaluations of five-card hands are strictly and totally ordered:
\* an evaluation equals itself; of a < b, a == b, a > b exactly one holds for
\* every pair, and a > b is b < a; < is transitive; a < b is the lexicographic
\* comparison of tier, primary value, secondary value and then the kickers in
\* order; and the suits of the cards have no rank of their own, so that two
\* hands of the same ranks that are both of one suit, or neither, are equal.
C29_TotalOrder ==
  FiveEvaluated =>
    LET a == lastCall.ret
    IN /\ __eq__(a, a)
       /\ \A b \in FiveCardEvaluations :
            /\ Cardinality({rel \in {"lt", "eq", "gt"} :
                              \/ rel = "lt" /\ __lt__(a, b)
                              \/ rel = "eq" /\ __eq__(a, b)
                              \/ rel = "gt" /\ __gt__(a, b)}) = 1
            /\ __gt__(a, b) <=> __lt__(b, a)
            /\ __lt__(a, b) <=> LexLess(Key(a), Key(b))
            /\ __lt__(a, b) => \A c \in FiveCardEvaluations : __lt__(b, c) => __lt__(a, c)
       /\ \A cards \in Hands5 :
            (RanksOf(cards) = RanksOf(lastCall.cards) /\ OneSuit(cards) = OneSuit(lastCall.cards))
              => __eq__(_evaluate_five_cards(cards), a)

\* a pair of twos with the kickers 7, 4, 3 was evaluated: the pair of twos
\* with the kickers 7, 6, 3 differs from it in the second kicker only
C29_Witness ==
  /\ FiveEvaluated
  /\ lastCall.ret = HandEvaluation(ONE_PAIR, 2, 0, <<7, 4, 3>>)
  /\ HandEvaluation(ONE_PAIR, 2, 0, <<7, 6, 3>>) \in FiveCardEvaluations
  /\ \E cards \in Hands5 \ {lastCall.cards} : RanksOf(cards) = RanksOf(lastCall.cards)

HandEvaluated == lastCall.op = "evaluate_hand"

\* the five-card hands that can be made of the cards
FiveOf(cards) == {hand \in Hands5 : Range(hand) \subseteq Range(cards)}

\* A-2-3-4-5 and 2-3-4-5-6 as sorted ranks
WheelRanks == <<14, 5, 4, 3, 2>>
SixHighRanks == <<6, 5, 4, 3, 2>>

\* C30: A-2-3-4-5 is a straight (a straight flush when of one suit) whose high
\* card is 5, and it is strictly below every 6-high straight that is of one
\* suit if the wheel is; evaluate_hand over five to seven cards returns an
\* evaluation of one of the five-card subsets (21 of seven cards) that none of
\* them exceeds; and the hole cards A, 2 with the board 3, 4, 5, 6, 7 in mixed
\* suits give the 7-high straight.
C30_WheelAndBestOfSeven ==
  /\ (FiveEvaluated /\ RanksOf(lastCall.cards) = WheelRanks) =>
       /\ lastCall.ret.hand_rank = (IF OneSuit(lastCall.cards) THEN STRAIGHT_FLUSH ELSE STRAIGHT)
       /\ lastCall.ret.primary_value = 5
       /\ \A cards \in Hands5 :
            (RanksOf(cards) = SixHighRanks /\ (OneSuit(lastCall.cards) => OneSuit(cards)))
              => /\ __lt__(lastCall.ret, _evaluate_five_cards(cards))
                 /\ ~__lt__(_evaluate_five_cards(cards), lastCall.ret)
  /\ (HandEvaluated /\ Len(lastCall.cards) >= 5) =>
       LET subsets == FiveOf(lastCall.cards)
       IN /\ Len(lastCall.cards) = 7 => Cardinality(subsets) = 21
          /\ \E hand \in subsets : _evaluate_five_cards(hand) = lastCall.ret
          /\ \A hand \in subsets : ~__gt__(_evaluate_five_cards(hand), lastCall.ret)
  /\ (HandEvaluated /\ lastCall.cards = SubSeq(CardPool, 1, 7)) =>
       lastCall.ret = HandEvaluation(STRAIGHT, 7, 0, <<>>)

\* the hand of the example was evaluated: its cards make the wheel and the
\* 7-high straight
C30_Witness ==
  /\ HandEvaluated
  /\ lastCall.cards = SubSeq(CardPool, 1, 7)
  /\ \E hand \in FiveOf(lastCall.cards) : RanksOf(hand) = WheelRanks
  /\ \E hand \in FiveOf(lastCall.cards) : RanksOf(hand) = <<7, 6, 5, 4, 3>>
  /\ \E hand \in Hands5 : RanksOf(hand) = SixHighRanks /\ OneSuit(hand)
  /\ \E hand \in Hands5 : RanksOf(hand) = WheelRanks /\ OneSuit(hand)

\* --------------------------------------------------------------------- C31
\* a step that left the hand on a new street
NewStreet == game'.game_phase \in {FLOP, TURN, RIVER} /\ game'.game_phase # game.game_phase

\* C31: when a betting round closes into a new street (Flop, Turn, River), at
\* the start of that street every player's current_bet is 0 and last_action is
\* cleared, the table's current bet is 0 and there is no last raiser; the main
\* pot and every player's chips and total_bet are what they were when the
\* action that closed the round had been applied.
C31_StreetReset ==
  [][NewStreet =>
       /\ \A pid \in DOMAIN game'.players :
            game'.players[pid].current_bet = 0 /\ game'.players[pid].last_action = None
       /\ game'.current_bet = 0
       /\ game'.last_raise_player_id = None
       /\ ActionStep =>
            LET before == Applied
            IN /\ game'.main_pot = before.main_pot
               /\ DOMAIN game'.players = DOMAIN before.players
               /\ \A pid \in DOMAIN game'.players :
                    /\ game'.players[pid].chips = before.players[pid].chips
                    /\ game'.players[pid].total_bet = before.players[pid].total_bet]_vars

\* heads-up, the big blind is matched and an action closed the round: the
\* Flop with three community cards, two big blinds in the pot and no bet on
\* the table
C31_Witness ==
  /\ game.game_phase = FLOP /\ game.phase_trail = <<FLOP>>
  /\ lastCall.op = "handle_player_action" /\ lastCall.action \in {CALL, CHECK}
  /\ Cardinality(DOMAIN game.players) = 2
  /\ game.community_cards = 3
  /\ game.main_pot = 2 * game.big_blind
  /\ \A pid \in DOMAIN game.players :
       game.players[pid].current_bet = 0 /\ game.players[pid].total_bet = game.big_blind

\* --------------------------------------------------------------------- C32
\* C32: every started hand eventually reaches GameOver, given that every armed
\* timer eventually fires unless an action is accepted first.
C32_HandEnds == Betting ~> game.game_phase = GAME_OVER

\* --------------------------------------------------------------------- C33
\* remove_player took the current actor away in a betting phase and at least
\* two players are left in the hand
ActorRemoved ==
  /\ RemoveStep /\ Betting
  /\ lastCall'.pid = game.current_player_id
  /\ lastCall'.pid \in Unfolded(game)
  /\ Cardinality(Unfolded(game) \ {lastCall'.pid}) >= 2

\* C33: when remove_player removes the current actor in a betting phase and
\* at least two players remain in the hand, the forced Fold is followed by
\* what follows a manual Fold: the round is closed if it is complete, else the
\* turn passes on; either way a hand that goes on waits for a registered
\* player.
C33_TurnPassesOnRemoval ==
  [][ActorRemoved =>
       (game'.game_phase \in {PRE_FLOP, FLOP, TURN, RIVER}
          => game'.current_player_id \in DOMAIN game'.players)]_vars

\* --------------------------------------------------------------------- C34
\* handle_player_action accepted an All-In in this step
AllInStep == ActionStep /\ lastCall'.action = ALL_IN

\* the un-folded players who can still act and are below the table's bet
Owing(g) == {pid \in CanStillAct(g) : g.players[pid].current_bet < g.current_bet}

\* the table's bet was set by the All-In of a player who is still in the hand
AllInRaiseStands(g) ==
  /\ g.last_raise_player_id \in Unfolded(g)
  /\ g.players[g.last_raise_player_id].last_action = ALL_IN
  /\ g.players[g.last_raise_player_id].current_bet = g.current_bet

\* C34, legality: in a betting phase an All-In of the current actor is
\* accepted iff that player has chips > 0.
C34_AllInLegal ==
  (Betting /\ game.current_player_id \in DOMAIN game.players) =>
    (_is_valid_action(game, game.current_player_id, ALL_IN, 0)
       <=> game.players[game.current_player_id].chips > 0)

\* C34, effect: after an accepted All-In the player has no chips, is AllIn,
\* and the chips went to the player's bets and to the main pot; the table's
\* bet and the last raiser change iff the player's new current_bet is above
\* the table's bet; and while the bet of an All-In stands, a step that leaves
\* a player who can act below it does not close the round and passes the
\* turn to a player who can act.
C34_AllInEffect ==
  [][/\ AllInStep =>
          LET pid == lastCall'.pid
              old == game.players[pid]
              new == Applied.players[pid]
              raises == old.current_bet + old.chips > game.current_bet
          IN /\ new.chips = 0 /\ new.status = ALL_IN
             /\ new.current_bet = old.current_bet + old.chips
             /\ new.total_bet = old.total_bet + old.chips
             /\ Applied.main_pot = game.main_pot + old.chips
             /\ raises => Applied.current_bet = new.current_bet /\ Applied.last_raise_player_id = pid
             /\ ~raises => Applied.current_bet = game.current_bet
                           /\ Applied.last_raise_player_id = game.last_raise_player_id
     /\ (ActionStep /\ AllInRaiseStands(Applied) /\ Owing(Applied) # {}) =>
          ~RoundClosed /\ game'.current_player_id \in CanStillAct(game')]_vars

\* C34: an All-In by the current actor is accepted iff the player has chips;
\* it puts all of them into the pot, raises the table's bet iff it exceeds it,
\* and then everybody who can act and is below gets a turn before the round
\* closes.
C34_AllIn == []C34_AllInLegal /\ C34_AllInEffect

\* --------------------------------------------------------------------- C35
\* at least two players are un-folded and none of them can act
AllAllIn(g) == Cardinality(Unfolded(g)) >= 2 /\ CanStillAct(g) = {}

\* the blind a player posts in the hand that this step starts
BlindOf(pid) ==
  IF game'.players[pid].is_small_blind THEN game.small_blind
  ELSE IF game'.players[pid].is_big_blind THEN game.big_blind
  ELSE 0

\* start_new_hand started a hand in which the blinds take the last chip of
\* every player who is dealt in
BlindsTakeAll ==
  /\ StartStep
  /\ Cardinality(Funded(game)) >= 2
  /\ \A pid \in Funded(game) : game.players[pid].chips <= BlindOf(pid)

\* the phases from a street to GameOver through the showdown
RECURSIVE RunOut(_)
RunOut(phase) == IF phase = GAME_OVER THEN <<>> ELSE <<NextPhase(phase)>> \o RunOut(NextPhase(phase))

\* C35: when an accepted action, or the posting of the blinds, leaves at least
\* two players un-folded and nobody who can act, the same call deals the
\* remaining streets in order and ends the hand at GameOver through the
\* showdown, with 5 community cards.
C35_AllInRunOut ==
  [][/\ (ActionStep /\ AllAllIn(Applied)) =>
          /\ game'.game_phase = GAME_OVER
          /\ game'.phase_trail = RunOut(game.game_phase)
          /\ game'.community_cards = 5
     /\ BlindsTakeAll =>
          /\ game'.game_phase = GAME_OVER
          /\ game'.phase_trail = <<PRE_FLOP>> \o RunOut(PRE_FLOP)
          /\ game'.community_cards = 5]_vars

\* --------------------------------------------------------------------- C36
\* C36: in every state of a betting phase the main pot is the sum of the
\* registered players' total_bet, and the total_bet of every player who was
\* registered when the hand started is the chips they had before
\* start_new_hand less the chips they have now.
C36_PotIsTotalBets ==
  Betting =>
    /\ game.main_pot = TotalBets(game)
    /\ \A pid \in Registered \cap DOMAIN hist.start_chips :
         game.players[pid].total_bet = hist.start_chips[pid] - game.players[pid].chips

\* --------------------------------------------------------------------- C37
\* start_new_hand started a hand while another was in a betting phase, waiting
\* for a player, with chips in the pot
RestartStep == StartStep /\ WaitingForActor(game) /\ PotsTotal(game) > 0

\* C37: start_new_hand called during a hand with chips in the pot destroys no
\* chips: it is refused and changes nothing, or the chips of the pot go back
\* to players, so that chips plus pots are the same before and after the call.
C37_RestartKeepsChips ==
  [][RestartStep =>
       TotalChips(game') + PotsTotal(game') = TotalChips(game) + PotsTotal(game)]_vars

\* --------------------------------------------------------------------- C38
\* the hole cards of all seats and the community cards, as one list
RECURSIVE HoleCardsFrom(_, _)
HoleCardsFrom(t, i) == IF i > Len(t.player_order) THEN <<>> ELSE t.hole_cards[t.player_order[i]] \o HoleCardsFrom(t, i + 1)

CardsOut(t) == HoleCardsFrom(t, 1) \o t.community_cards

\* C38: within a hand no card is dealt twice and the deck never runs out:
\* every seat that had chips when the hand was dealt holds exactly 2 hole
\* cards and every other seat none, the hole cards and the community cards
\* are pairwise distinct (and none of them is still in the deck), and no
\* deal_card finds the deck empty, for tables of up to MaxSeats seats, through
\* the river.
C38_NoCardTwice ==
  game.hand_number >= 1 =>
    /\ \A seat \in DOMAIN game.hole_cards :
         Len(game.hole_cards[seat]) = (IF seat \in game.funded THEN 2 ELSE 0)
    /\ Cardinality(Range(CardsOut(game))) = Len(CardsOut(game))
    /\ Range(CardsOut(game)) \cap Range(game.deck) = {}
    /\ Cardinality(Range(game.deck)) = Len(game.deck)
    /\ game.empty_deals = 0

\* the river of the second hand at a full table where everybody has chips: 18
\* hole cards and 5 community cards are out
C38_Witness ==
  /\ game.hand_number = 2 /\ game.game_phase = RIVER
  /\ Len(game.player_order) = MaxSeats /\ Cardinality(game.funded) = MaxSeats
  /\ Len(CardsOut(game)) = 2 * MaxSeats + 5
  /\ Len(game.deck) = DeckSize - 2 * MaxSeats - 8

\* --------------------------------------------------------------------- C39
\* C39: in every state every player's chips, current_bet and total_bet are
\* not negative and current_bet is at most total_bet; in a betting phase a
\* player with status Active has chips and a player with status AllIn has
\* none.
C39_Accounts ==
  \A pid \in Registered :
    LET player == game.players[pid]
    IN /\ player.chips >= 0 /\ player.current_bet >= 0 /\ player.total_bet >= 0
       /\ player.current_bet <= player.total_bet
       /\ Betting => /\ player.status = ACTIVE => player.chips > 0
                     /\ player.status = ALL_IN => player.chips = 0

\* the Turn or the River with a player who went all-in by an action, a player
\* who is active, and bets of earlier streets
C39_Witness ==
  /\ game.game_phase \in {TURN, RIVER}
  /\ \E pid \in Registered : game.players[pid].status = ALL_IN /\ game.players[pid].last_action = ALL_IN
  /\ \E pid \in Registered : game.players[pid].status = ACTIVE
                             /\ game.players[pid].current_bet < game.players[pid].total_bet
====
